---------------------------- MODULE Spec2Model ----------------------------
(***************************************************************************)
(* Model of the aggregation client of stac-fastapi (core/core.py,          *)
(* EsAsyncAggregationClient).  One aggregate request is followed from the  *)
(* call to the response; the handler is cut at its two awaits on the       *)
(* backend (find_collection and database.aggregate).                       *)
(*                                                                         *)
(* Python values:  None is <<>>, any other optional value v is <<v>>.      *)
(* A local variable is Unbound until its first assignment.  The comma      *)
(* separated strings of the GET request are kept in split form.            *)
(***************************************************************************)
EXTENDS Integers, Sequences, FiniteSets, TLC

None == <<>>

Some(v) == <<v>>

Unbound == [bound |-> FALSE]

Bound(v) == [bound |-> TRUE, val |-> v]

\* Python truthiness of an optional list or mapping, and of an optional string.
Truthy(x) == x # None /\ x[1] # <<>>

TruthyStr(x) == x # None /\ x[1] # ""

\* dict.get(key): None when the key is absent.
Get(d, key) == IF key \in DOMAIN d THEN Some(d[key]) ELSE None

\* `a or b` where a is an optional string: b when a is None or empty.
Or(a, b) == IF TruthyStr(a) THEN a ELSE b

Range(s) == {s[i] : i \in 1..Len(s)}

(***************************************************************************)
(* Bounds of the model.                                                    *)
(***************************************************************************)
\* largest number of parameter values one request supplies, a list of n
\* aggregation names counting as n
MaxSupplied == 3

(***************************************************************************)
(* Tables of aggregate.                                                    *)
(***************************************************************************)
DEFAULT_AGGREGATIONS ==
    << [name |-> "total_count", data_type |-> "integer"],
       [name |-> "datetime_max", data_type |-> "datetime"],
       [name |-> "datetime_min", data_type |-> "datetime"],
       [name |-> "datetime_frequency", data_type |-> "frequency_distribution",
        frequency_distribution_data_type |-> "datetime"] >>

ALL_AGGREGATION_NAMES ==
    [i \in 1..Len(DEFAULT_AGGREGATIONS) |-> DEFAULT_AGGREGATIONS[i].name] \o
    << "collection_frequency",
       "grid_code_frequency",
       "grid_geohash_frequency",
       "grid_geohex_frequency",
       "grid_geotile_frequency",
       "centroid_geohash_grid_frequency",
       "centroid_geohex_grid_frequency",
       "centroid_geotile_grid_frequency",
       "geometry_geohash_grid_frequency",
       "geometry_geotile_grid_frequency",
       "platform_frequency",
       "sun_elevation_frequency",
       "sun_azimuth_frequency",
       "off_nadir_frequency",
       "cloud_cover_frequency" >>

\* The dict other_aggregations, in its insertion order.
other_aggregations ==
    << <<"collection_frequency", "string">>,
       <<"grid_code_frequency", "string">>,
       <<"grid_geohash_frequency", "string">>,
       <<"grid_geohex_frequency", "string">>,
       <<"grid_geotile_frequency", "string">>,
       <<"centroid_geohash_grid_frequency", "string">>,
       <<"centroid_geohex_grid_frequency", "string">>,
       <<"centroid_geotile_grid_frequency", "string">>,
       <<"geometry_geohash_grid_frequency", "string">>,
       <<"geometry_geotile_grid_frequency", "string">>,
       <<"platform_frequency", "string">>,
       <<"sun_elevation_frequency", "string">>,
       <<"sun_azimuth_frequency", "string">>,
       <<"off_nadir_frequency", "string">>,
       <<"datetime_frequency", "datetime">>,
       <<"cloud_cover_frequency", "numeric">> >>

max_geohash_precision == 12

max_geohex_precision == 15

max_geotile_precision == 29

min_geohash_precision == 1

min_geohex_precision == 0

min_geotile_precision == 0

\* The eight precision parameters in the order aggregate hands them to
\* database.aggregate, each with the bounds of its extract_precision call.
PrecisionParams ==
    << [param |-> "grid_geohash_frequency_precision",
        min |-> min_geohash_precision, max |-> max_geohash_precision],
       [param |-> "grid_geohex_frequency_precision",
        min |-> min_geohex_precision, max |-> max_geohex_precision],
       [param |-> "grid_geotile_frequency_precision",
        min |-> min_geotile_precision, max |-> max_geotile_precision],
       [param |-> "centroid_geohash_grid_frequency_precision",
        min |-> min_geohash_precision, max |-> max_geohash_precision],
       [param |-> "centroid_geohex_grid_frequency_precision",
        min |-> min_geohex_precision, max |-> max_geohex_precision],
       [param |-> "centroid_geotile_grid_frequency_precision",
        min |-> min_geotile_precision, max |-> max_geotile_precision],
       [param |-> "geometry_geohash_grid_frequency_precision",
        min |-> min_geohash_precision, max |-> max_geohash_precision],
       [param |-> "geometry_geotile_grid_frequency_precision",
        min |-> min_geotile_precision, max |-> max_geotile_precision] >>

(***************************************************************************)
(* The backend and the requests the model draws from.                      *)
(***************************************************************************)
\* The collections the backend holds: c1 declares an aggregation list (one
\* name of the catalog list, one outside it), c2 declares none, c3 declares
\* an empty one.
Catalog ==
    [c1 |-> [id |-> "c1",
             aggregations |->
                << [name |-> "total_count", data_type |-> "integer"],
                   [name |-> "custom_frequency",
                    data_type |-> "frequency_distribution"] >>],
     c2 |-> [id |-> "c2"],
     c3 |-> [id |-> "c3", aggregations |-> <<>>]]

\* The aggregation names requests are made of: the three scalars, one
\* distribution of each element type, and a name outside the catalog list.
ReqNames ==
    {"total_count", "datetime_max", "datetime_min", "grid_geohex_frequency",
     "datetime_frequency", "cloud_cover_frequency", "custom_frequency"}

\* The values a request may give a precision parameter: the two ends of its
\* range and the values next to them.
PrecisionValues(p) == {p.min - 1, p.min, p.max, p.max + 1}

\* What a request may pass for a parameter with the given values when it may
\* still supply `budget` values: None, or one of the values.
Supplied(values, budget) ==
    {None} \cup (IF budget >= 1 THEN {Some(v) : v \in values} ELSE {})

Used(x) == IF x = None THEN 0 ELSE 1

\* The lists of aggregation names of at most `budget` names.
AggregationLists(budget) ==
    {None} \cup {Some(s) : s \in UNION {[1..k -> ReqNames] : k \in 1..budget}}

\* The eight precision parameters with at most `budget` of them supplied.
RECURSIVE PrecisionChoices(_)
PrecisionChoices(budget) ==
    IF budget = 0 THEN {[i \in 1..Len(PrecisionParams) |-> None]}
    ELSE LET fewer == PrecisionChoices(budget - 1)
         IN  fewer \cup
             UNION {{[q EXCEPT ![i] = Some(v)] :
                        v \in PrecisionValues(PrecisionParams[i])} :
                    q \in fewer, i \in 1..Len(PrecisionParams)}

PrecisionTable == [budget \in 0..MaxSupplied |-> PrecisionChoices(budget)]

CollectionIds == {"c1", "c2", "c3", "cX"}

CollectionsValues == {<<"c1", "c2">>}

BboxValues == {<<-10, -20, 10, 20>>, <<-10, -20, 0, 10, 20, 100>>}

IntersectsValues == {[type |-> "Polygon"], [type |-> "Feature"]}

DatetimeValues == {[kind |-> "tuple", start |-> Some("2020-01-01"), end |-> None]}

IdsValues == {<<"item1", "item2">>}

\* A filter string: whether it is JSON, and whether the backend accepts it.
FilterValues ==
    {[json |-> TRUE, accepted |-> TRUE],
     [json |-> TRUE, accepted |-> FALSE],
     [json |-> FALSE, accepted |-> FALSE]}

\* The keyword arguments of one call of aggregate.
Request(aggregations, collection_id, collections, bbox, intersects, datetime, ids, filter, q) ==
    [aggregations |-> aggregations,
     collection_id |-> collection_id,
     collections |-> collections,
     bbox |-> bbox,
     intersects |-> intersects,
     datetime |-> datetime,
     ids |-> ids,
     filter |-> filter,
     grid_geohash_frequency_precision |-> q[1],
     grid_geohex_frequency_precision |-> q[2],
     grid_geotile_frequency_precision |-> q[3],
     centroid_geohash_grid_frequency_precision |-> q[4],
     centroid_geohex_grid_frequency_precision |-> q[5],
     centroid_geotile_grid_frequency_precision |-> q[6],
     geometry_geohash_grid_frequency_precision |-> q[7],
     geometry_geotile_grid_frequency_precision |-> q[8]]

(***************************************************************************)
(* The helpers of EsAsyncAggregationClient.                                *)
(***************************************************************************)
HTTPException(status_code, detail) ==
    [exc |-> "HTTPException", status_code |-> status_code, detail |-> detail]

Exception(exc, detail) == [exc |-> exc, detail |-> detail]

\* urllib's urljoin on a base whose last path segment is `last`: the relative
\* url replaces that segment; the third parameter is allow_fragments.
urljoin(base, url, allow_fragments) == [dir |-> base.dir, last |-> url]

base_url == [dir |-> <<"http://test-server">>, last |-> ""]

\* A comma separated string (kept split) or a list becomes the list of its
\* parts; None and the empty value become [].
extract_collection_ids(collection_ids) ==
    IF Truthy(collection_ids) THEN collection_ids[1] ELSE <<>>

extract_aggregations(aggregations_value) ==
    IF Truthy(aggregations_value) THEN aggregations_value[1] ELSE <<>>

extract_ids(ids_value) ==
    IF Truthy(ids_value) THEN ids_value[1] ELSE <<>>

\* The geometry, or the exception for a Feature or FeatureCollection.
extract_intersects(intersects_value) ==
    IF Truthy(intersects_value)
    THEN LET geojson == intersects_value[1]
         IN  IF Get(geojson, "type") = Some("FeatureCollection")
                \/ Get(geojson, "type") = Some("Feature")
             THEN [raised |-> Some(HTTPException(400,
                      <<"Expected GeoJSON geometry, not Feature or FeatureCollection">>))]
             ELSE [raised |-> None, value |-> Some(geojson)]
    ELSE [raised |-> None, value |-> None]

\* Variant: only the lower end of the range is checked.
extract_precision_no_upper(precision, min_value, max_value) ==
    IF precision # None
    THEN IF precision[1] < min_value
         THEN [raised |-> Some(HTTPException(400,
                  <<"Invalid precision. Must be a number between",
                    min_value, "and", max_value, "inclusive">>))]
         ELSE [raised |-> None, value |-> precision[1]]
    ELSE [raised |-> None, value |-> min_value]

extract_precision(precision, min_value, max_value) ==
    IF precision # None
    THEN IF precision[1] < min_value \/ precision[1] > max_value
         THEN [raised |-> Some(HTTPException(400,
                  <<"Invalid precision. Must be a number between",
                    min_value, "and", max_value, "inclusive">>))]
         ELSE [raised |-> None, value |-> precision[1]]
    ELSE [raised |-> None, value |-> min_value]

\* strftime("%Y-%m-%dT%H:%M:%S.%f")[:-3] + "Z": the wall-clock time to the
\* millisecond with a Z appended.
strftime_millis_Z(dt) == <<dt, ".000Z">>

\* datetime.isoformat(): the wall-clock time with the UTC offset appended.
isoformat(dt) == <<dt, "+00:00">>

\* str.split(sep) on a string kept as the sequence of its lexemes: the parts
\* between the separators, an empty part where two separators meet or the
\* string starts or ends with one.
RECURSIVE split(_, _)
split(s, sep) ==
    IF \A i \in 1..Len(s) : s[i] # sep THEN <<s>>
    ELSE LET k == CHOOSE i \in 1..Len(s) :
                     s[i] = sep /\ \A j \in 1..(i - 1) : s[j] # sep
         IN  <<SubSeq(s, 1, k - 1)>> \o split(SubSeq(s, k + 1, Len(s)), sep)

\* The interval is None, a string, a datetime or a (start, end) pair of
\* optional datetimes; its kind stands for the isinstance tests.
return_date_body(interval) ==
    LET result == [gte |-> None, lte |-> None]
    IN  IF interval = None THEN result
        ELSE LET v == interval[1]
             IN  IF v.kind = "str"
                 THEN IF \E i \in 1..Len(v.s) : v.s[i] = "/"
                      THEN LET parts == split(v.s, "/")
                           IN  [gte |-> IF parts[1] # <<"..">>
                                        THEN Some(parts[1]) ELSE None,
                                lte |-> IF Len(parts) > 1 /\ parts[2] # <<"..">>
                                        THEN Some(parts[2]) ELSE None]
                      ELSE LET converted_time == IF v.s # <<"..">>
                                                 THEN Some(v.s) ELSE None
                           IN  [gte |-> converted_time, lte |-> converted_time]
                 ELSE IF v.kind = "datetime"
                 THEN [gte |-> Some(isoformat(v.dt)), lte |-> Some(isoformat(v.dt))]
                 ELSE IF v.kind = "tuple"
                 THEN [gte |-> IF v.start # None
                               THEN Some(strftime_millis_Z(v.start[1])) ELSE None,
                       lte |-> IF v.end # None
                               THEN Some(strftime_millis_Z(v.end[1])) ELSE None]
                 ELSE result

\* Variant: None gives an empty mapping.
return_date_empty_for_none(interval) ==
    IF interval = None THEN <<>> ELSE return_date_body(interval)

\* EsAsyncAggregationClient._return_date
_return_date(interval) == return_date_body(interval)

\* CoreClient._return_date, the same statements.
CoreClient_return_date(interval) == return_date_body(interval)

\* Variant: the bucket key is always the raw key.
agg_raw_key(es_aggs, name, data_type) ==
    LET entry == IF name \in DOMAIN es_aggs THEN es_aggs[name] ELSE <<>>
        raw == IF "buckets" \in DOMAIN entry THEN entry.buckets ELSE <<>>
        buckets ==
            [i \in 1..Len(raw) |->
                [key |-> Get(raw[i], "key"),
                 data_type |-> data_type,
                 frequency |-> Get(raw[i], "doc_count"),
                 to |-> Get(raw[i], "to"),
                 from |-> Get(raw[i], "from")]]
    IN  [name |-> name,
         data_type |-> "frequency_distribution",
         overflow |-> IF "sum_other_doc_count" \in DOMAIN entry
                      THEN entry.sum_other_doc_count ELSE 0,
         buckets |-> buckets]

\* One Aggregation of data type frequency_distribution out of the raw
\* backend aggregations.
agg(es_aggs, name, data_type) ==
    LET entry == IF name \in DOMAIN es_aggs THEN es_aggs[name] ELSE <<>>
        raw == IF "buckets" \in DOMAIN entry THEN entry.buckets ELSE <<>>
        buckets ==
            [i \in 1..Len(raw) |->
                [key |-> Or(Get(raw[i], "key_as_string"), Get(raw[i], "key")),
                 data_type |-> data_type,
                 frequency |-> Get(raw[i], "doc_count"),
                 to |-> Get(raw[i], "to"),
                 from |-> Get(raw[i], "from")]]
    IN  [name |-> name,
         data_type |-> "frequency_distribution",
         overflow |-> IF "sum_other_doc_count" \in DOMAIN entry
                      THEN entry.sum_other_doc_count ELSE 0,
         buckets |-> buckets]

(***************************************************************************)
(* aggregate, statement by statement.  A frame holds the locals of one     *)
(* call, the backend calls made so far and the exception raised, if any.   *)
(***************************************************************************)
Frame(r) ==
    [req |-> r,
     search |-> Unbound,
     calls |-> <<>>,
     collection |-> Unbound,
     collection_endpoint |-> Unbound,
     aggregations_requested |-> Unbound,
     precisions |-> Unbound,
     db_response |-> Unbound,
     error |-> Unbound,
     results |-> Unbound,
     raised |-> None]

Raise(f, e) == [f EXCEPT !.raised = Some(e)]

\* A filter method of the backend: the call is made and the filter is
\* composed onto the accumulator.
Apply(f, op, arg) ==
    [f EXCEPT !.calls = Append(@, [op |-> op, arg |-> arg]),
              !.search = Bound(Append(f.search.val, [filter |-> op, arg |-> arg]))]

CheckBboxOrIntersects(f) ==
    IF Truthy(f.req.bbox) /\ Truthy(f.req.intersects)
    THEN Raise(f, Exception("ValueError",
                            <<"Expected bbox OR intersects, not both">>))
    ELSE f

make_search(f) ==
    [f EXCEPT !.calls = Append(@, [op |-> "make_search"]),
              !.search = Bound(<<>>)]

\* Variant: the branches without collection_id leave `collection` unassigned.
ScopeCatalog_unassigned(f) ==
    LET g == IF Truthy(f.req.collections)
             THEN Apply(f, "apply_collections_filter",
                        extract_collection_ids(f.req.collections))
             ELSE f
    IN  [g EXCEPT !.collection_endpoint = Bound(None)]

\* The branches of `if collection_id:` that do not await the backend.
ScopeCatalog(f) ==
    LET g == IF Truthy(f.req.collections)
             THEN Apply(f, "apply_collections_filter",
                        extract_collection_ids(f.req.collections))
             ELSE f
    IN  [g EXCEPT !.collection_endpoint = Bound(None),
                  !.collection = Bound(None)]

\* check_collection_exists is a coroutine function (update_item awaits it);
\* aggregate calls it without await and tests the coroutine object.
check_collection_exists(collection_id) == TRUE

\* `if collection_id:` up to the await of find_collection.
ScopeCollection(f) ==
    LET g == [f EXCEPT !.collection_endpoint =
                 Bound(Some(urljoin(base_url, "collections", f.req.collection_id[1])))]
    IN  IF check_collection_exists(f.req.collection_id[1])
        THEN [g EXCEPT !.calls =
                 Append(@, [op |-> "find_collection", arg |-> f.req.collection_id[1]])]
        ELSE Raise(g, Exception("UnboundLocalError", <<"collection">>))

\* find_collection has returned `found`.
ScopeFound(f, found) ==
    LET g == [f EXCEPT !.collection = Bound(Some(found))]
    IN  Apply(g, "apply_collections_filter", <<f.req.collection_id[1]>>)

DatetimeFilter(f) ==
    IF Truthy(f.req.datetime)
    THEN Apply(f, "apply_datetime_filter", _return_date(f.req.datetime))
    ELSE f

SpatialFilter(f) ==
    IF Truthy(f.req.bbox)
    THEN LET b == f.req.bbox[1]
             bbox == IF Len(b) = 6 THEN <<b[1], b[2], b[4], b[5]>> ELSE b
         IN  Apply(f, "apply_bbox_filter", bbox)
    ELSE IF Truthy(f.req.intersects)
    THEN LET x == extract_intersects(f.req.intersects)
         IN  IF x.raised # None THEN Raise(f, x.raised[1])
             ELSE Apply(f, "apply_intersects_filter", x.value)
    ELSE f

IdsFilter(f) ==
    IF Truthy(f.req.ids)
    THEN Apply(f, "apply_ids_filter", extract_ids(f.req.ids))
    ELSE f

\* The filter of a GET request is a string: json.loads outside the try, then
\* apply_cql2_filter inside it.
Cql2Filter(f) ==
    IF Truthy(f.req.filter)
    THEN LET flt == f.req.filter[1]
         IN  IF ~flt.json
             THEN Raise(f, Exception("JSONDecodeError", <<"Expecting value">>))
             ELSE LET g == [f EXCEPT !.calls =
                               Append(@, [op |-> "apply_cql2_filter", arg |-> flt])]
                  IN  IF flt.accepted
                      THEN [g EXCEPT !.search =
                               Bound(Append(f.search.val,
                                     [filter |-> "apply_cql2_filter", arg |-> flt]))]
                      ELSE Raise(g, HTTPException(400,
                                     <<"Error with cql2_json filter">>))
    ELSE f

ExtractAggregations(f) ==
    [f EXCEPT !.aggregations_requested =
                 Bound(extract_aggregations(f.req.aggregations))]

\* The first name of `requested` that is not in `supported`, if any.
FirstNotIn(requested, supported) ==
    LET bad == {i \in 1..Len(requested) : requested[i] \notin Range(supported)}
    IN  IF bad = {} THEN None
        ELSE Some(requested[CHOOSE i \in bad : \A j \in bad : i <= j])

\* `collection and collection.get("aggregations")`
DeclaresAggregations(collection) ==
    /\ collection # None
    /\ Truthy(Get(collection[1], "aggregations"))

\* x.name for an entry x of a declared aggregation list.  The entries are
\* dicts (Aggregation is a TypedDict, and get_aggregations returns the list
\* where it otherwise returns DEFAULT_AGGREGATIONS): a key of a dict is not an
\* attribute of it.
getattr(x, name) ==
    [raised |-> Some(Exception("AttributeError",
                    <<"'dict' object has no attribute", name>>))]

ValidateAggregations(f) ==
    IF ~f.collection.bound
    THEN Raise(f, Exception("UnboundLocalError", <<"collection">>))
    ELSE
    LET collection == f.collection.val
        requested == f.aggregations_requested.val
    IN  IF DeclaresAggregations(collection)
        THEN LET declared == collection[1].aggregations
                 names == [i \in 1..Len(declared) |-> getattr(declared[i], "name")]
                 failed == {i \in 1..Len(names) : names[i].raised # None}
                 supported_aggregations ==
                     [i \in 1..Len(names) |-> names[i].value]
                 bad == FirstNotIn(requested, supported_aggregations)
             IN  IF failed # {}
                 THEN Raise(f, names[CHOOSE i \in failed :
                                        \A j \in failed : i <= j].raised[1])
                 ELSE IF bad # None
                 THEN Raise(f, HTTPException(415,
                          <<"Aggregation", bad[1], "not supported by collection",
                            f.req.collection_id>>))
                 ELSE f
        ELSE LET bad == FirstNotIn(requested, ALL_AGGREGATION_NAMES)
             IN  IF bad # None
                 THEN Raise(f, HTTPException(415,
                          <<"Aggregation", bad[1], "not supported at catalog level">>))
                 ELSE f

\* The eight extract_precision calls, in order; the first one that raises
\* ends the request.
ExtractPrecisions(f) ==
    LET x == [i \in 1..Len(PrecisionParams) |->
                 extract_precision(f.req[PrecisionParams[i].param],
                                   PrecisionParams[i].min, PrecisionParams[i].max)]
        bad == {i \in 1..Len(x) : x[i].raised # None}
    IN  IF bad # {}
        THEN Raise(f, x[CHOOSE i \in bad : \A j \in bad : i <= j].raised[1])
        ELSE [f EXCEPT !.precisions = Bound([i \in 1..Len(x) |-> x[i].value])]

\* Variant: the precisions are handed over in the order of the parameters of
\* aggregate (geohex first) instead of the order of database.aggregate.
CallDbAggregate_signature_order(f) ==
    [f EXCEPT !.calls =
        Append(@, [op |-> "aggregate",
                   collection_id |-> f.req.collection_id,
                   aggregations |-> f.aggregations_requested.val,
                   search |-> f.search.val,
                   precisions |->
                       <<f.precisions.val[2], f.precisions.val[1]>> \o
                       SubSeq(f.precisions.val, 3, Len(f.precisions.val))])]

\* The call of database.aggregate, which aggregate awaits.
CallDbAggregate(f) ==
    [f EXCEPT !.calls =
        Append(@, [op |-> "aggregate",
                   collection_id |-> f.req.collection_id,
                   aggregations |-> f.aggregations_requested.val,
                   search |-> f.search.val,
                   precisions |-> f.precisions.val])]

\* From the datetime filter to the await of database.aggregate; an exception
\* ends the call where it is raised.
FiltersAndValidation(f) ==
    LET f1 == SpatialFilter(DatetimeFilter(f))
        f2 == IF f1.raised # None THEN f1 ELSE Cql2Filter(IdsFilter(f1))
        f3 == IF f2.raised # None THEN f2
              ELSE ValidateAggregations(ExtractAggregations(f2))
        f4 == IF f3.raised # None THEN f3 ELSE ExtractPrecisions(f3)
    IN  IF f4.raised # None THEN f4 ELSE CallDbAggregate(f4)

(***************************************************************************)
(* What database.aggregate may answer.                                     *)
(***************************************************************************)
\* Raw aggregations with an entry for every catalog name of ReqNames.
RawFull ==
    [total_count |-> [value |-> 3],
     datetime_max |-> [value |-> "1609372800000.0",
                       value_as_string |-> "2020-12-31T00:00:00.000Z"],
     datetime_min |-> [value |-> "1577836800000.0",
                       value_as_string |-> "2020-01-01T00:00:00.000Z"],
     grid_geohex_frequency |->
        [buckets |-> << [key |-> "8a2a1072b59ffff", doc_count |-> 2],
                        [key |-> "8a2a1072b597fff", doc_count |-> 1] >>,
         sum_other_doc_count |-> 4],
     datetime_frequency |->
        [buckets |-> << [key |-> "1577836800000",
                         key_as_string |-> "2020-01-01T00:00:00.000Z",
                         doc_count |-> 3] >>],
     cloud_cover_frequency |->
        [buckets |-> << [key |-> "0.0-5.0", from |-> 0, to |-> 5, doc_count |-> 1],
                        [key |-> "5.0-15.0", from |-> 5, to |-> 15, doc_count |-> 0],
                        [key |-> "15.0-*", from |-> 15, doc_count |-> 2] >>]]

\* Raw aggregations of a search that matched nothing: a count of 0, a
\* maximum without value_as_string, an empty distribution, other names absent.
RawSparse ==
    [total_count |-> [value |-> 0],
     datetime_max |-> [meta |-> "no value"],
     grid_geohex_frequency |-> [buckets |-> <<>>, sum_other_doc_count |-> 0]]

\* The results database.aggregate may return: nothing, or a response.
DbResponses ==
    {None, Some([aggregations |-> RawFull]), Some([aggregations |-> RawSparse])}

\* The exceptions database.aggregate may raise: no index matches the
\* collection, or the backend cannot be reached.
DbErrors == {"IndexError", "ConnectionError"}

(***************************************************************************)
(* aggregate after database.aggregate.                                     *)
(***************************************************************************)
\* Variant: every scalar is read from the field `value`.
Scalar_value_field(result_aggs, name, data_type, field) ==
    LET entry == IF name \in DOMAIN result_aggs THEN result_aggs[name] ELSE <<>>
    IN  [name |-> name, data_type |-> data_type, value |-> Get(entry, "value")]

\* A scalar Aggregation: result_aggs.get(name, {}).get(field, None)
Scalar(result_aggs, name, data_type, field) ==
    LET entry == IF name \in DOMAIN result_aggs THEN result_aggs[name] ELSE <<>>
    IN  [name |-> name, data_type |-> data_type, value |-> Get(entry, field)]

\* Variant: the three scalar tests form one if/elif chain.
ShapeAggregations_elif(db_response, aggregations_requested) ==
    LET result_aggs == db_response.aggregations
        requested == Range(aggregations_requested)
        scalar == IF "total_count" \in requested
                  THEN <<Scalar(result_aggs, "total_count", "integer", "value")>>
                  ELSE IF "datetime_max" \in requested
                  THEN <<Scalar(result_aggs, "datetime_max", "datetime",
                                "value_as_string")>>
                  ELSE IF "datetime_min" \in requested
                  THEN <<Scalar(result_aggs, "datetime_min", "datetime",
                                "value_as_string")>>
                  ELSE <<>>
        wanted == SelectSeq(other_aggregations, LAMBDA e : e[1] \in requested)
        others == [i \in 1..Len(wanted) |->
                      agg(result_aggs, wanted[i][1], wanted[i][2])]
    IN  scalar \o others

\* Variant: the distributions are put in front of the scalars.
ShapeAggregations_others_first(db_response, aggregations_requested) ==
    LET result_aggs == db_response.aggregations
        requested == Range(aggregations_requested)
        total == IF "total_count" \in requested
                 THEN <<Scalar(result_aggs, "total_count", "integer", "value")>>
                 ELSE <<>>
        dmax == IF "datetime_max" \in requested
                THEN <<Scalar(result_aggs, "datetime_max", "datetime",
                              "value_as_string")>>
                ELSE <<>>
        dmin == IF "datetime_min" \in requested
                THEN <<Scalar(result_aggs, "datetime_min", "datetime",
                              "value_as_string")>>
                ELSE <<>>
        wanted == SelectSeq(other_aggregations, LAMBDA e : e[1] \in requested)
        others == [i \in 1..Len(wanted) |->
                      agg(result_aggs, wanted[i][1], wanted[i][2])]
    IN  others \o total \o dmax \o dmin

\* The list `aggregations` built from a truthy db_response.
ShapeAggregations(db_response, aggregations_requested) ==
    LET result_aggs == db_response.aggregations
        requested == Range(aggregations_requested)
        total == IF "total_count" \in requested
                 THEN <<Scalar(result_aggs, "total_count", "integer", "value")>>
                 ELSE <<>>
        dmax == IF "datetime_max" \in requested
                THEN <<Scalar(result_aggs, "datetime_max", "datetime",
                              "value_as_string")>>
                ELSE <<>>
        dmin == IF "datetime_min" \in requested
                THEN <<Scalar(result_aggs, "datetime_min", "datetime",
                              "value_as_string")>>
                ELSE <<>>
        wanted == SelectSeq(other_aggregations, LAMBDA e : e[1] \in requested)
        others == [i \in 1..Len(wanted) |->
                      agg(result_aggs, wanted[i][1], wanted[i][2])]
    IN  total \o dmax \o dmin \o others

\* The except clause around database.aggregate: IndexError is swallowed and
\* db_response stays unassigned, any other exception is raised again.
DbRaised(f, error) ==
    LET g == [f EXCEPT !.error = Bound(error)]
    IN  IF error # "IndexError" THEN Raise(g, Exception(error, <<"backend">>))
        ELSE g

\* From `aggregations = []` to the return.
Shape(f) ==
    IF ~f.db_response.bound
    THEN Raise(f, Exception("UnboundLocalError", <<"db_response">>))
    ELSE
    LET aggregations ==
            IF Truthy(f.db_response.val)
            THEN ShapeAggregations(f.db_response.val[1],
                                   f.aggregations_requested.val)
            ELSE <<>>
        links ==
            << [rel |-> "self", type |-> "application/json",
                href |-> urljoin(base_url, "aggregate", TRUE)],
               [rel |-> "root", type |-> "application/json", href |-> base_url] >>
    IN  IF f.collection_endpoint.val # None /\ ~f.results.bound
        THEN Raise(f, Exception("UnboundLocalError", <<"results">>))
        ELSE [f EXCEPT !.results =
                 Bound([type |-> "AggregationCollection",
                        aggregations |-> aggregations,
                        links |-> links])]

(***************************************************************************)
(* get_aggregations.                                                       *)
(***************************************************************************)
\* The list DEFAULT_AGGREGATIONS local to get_aggregations.
GA_DEFAULT_AGGREGATIONS ==
    << [name |-> "total_count", data_type |-> "integer"],
       [name |-> "datetime_max", data_type |-> "datetime"],
       [name |-> "datetime_min", data_type |-> "datetime"],
       [name |-> "datetime_frequency", data_type |-> "frequency_distribution",
        frequency_distribution_data_type |-> "datetime"] >>

\* The locals of get_aggregations once `links` holds the root link.
GetAggregationsFrame(r) ==
    [Frame(r) EXCEPT
        !.results = Bound([links |-> << [rel |-> "root", type |-> "application/json",
                                         href |-> base_url] >>])]

\* `if collection_id:` up to the await of find_collection.
GetAggregationsScoped(f) ==
    LET collection_endpoint == urljoin(base_url, "collections", f.req.collection_id[1])
        links == f.results.val.links \o
                 << [rel |-> "collection", type |-> "application/json",
                     href |-> collection_endpoint],
                    [rel |-> "self", type |-> "application/json",
                     href |-> urljoin(collection_endpoint, "aggregations", TRUE)] >>
        g == [f EXCEPT !.collection_endpoint = Bound(Some(collection_endpoint)),
                       !.results = Bound([links |-> links])]
    IN  IF check_collection_exists(f.req.collection_id[1])
        THEN [g EXCEPT !.calls =
                 Append(@, [op |-> "find_collection", arg |-> f.req.collection_id[1]])]
        ELSE Raise(g, Exception("IndexError", <<"Collection does not exist">>))

\* The AggregationCollection get_aggregations returns.
GetAggregationsReturn(f, aggregations) ==
    [f EXCEPT !.results = Bound([type |-> "AggregationCollection",
                                 aggregations |-> aggregations,
                                 links |-> f.results.val.links])]

\* The else branch: the catalog level.
GetAggregationsCatalog(f) ==
    LET links == Append(f.results.val.links,
                        [rel |-> "self", type |-> "application/json",
                         href |-> urljoin(base_url, "aggregations", TRUE)])
    IN  GetAggregationsReturn([f EXCEPT !.results = Bound([links |-> links])],
                              GA_DEFAULT_AGGREGATIONS)

\* find_collection has returned `found`:
\* collection.get("aggregations", DEFAULT_AGGREGATIONS.copy())
GetAggregationsFound(f, found) ==
    LET g == [f EXCEPT !.collection = Bound(Some(found))]
    IN  GetAggregationsReturn(g, IF "aggregations" \in DOMAIN found
                                 THEN found.aggregations
                                 ELSE GA_DEFAULT_AGGREGATIONS)

(***************************************************************************)
(* The datetime values a caller may pass to _return_date.                  *)
(***************************************************************************)
DateTimes == {"2020-01-01T00:00:00", "2021-06-30T12:00:00"}

OptionalDateTimes == {None} \cup {Some(dt) : dt \in DateTimes}

\* The ends of a string interval: an instant, `..` or nothing.
IntervalEnds == {<<dt>> : dt \in DateTimes} \cup {<<"..">>, <<>>}

\* A string instant, or a string interval `a/b` with at most one open end.
DateStrings ==
    {<<dt>> : dt \in DateTimes} \cup
    {a \o <<"/">> \o b : a \in {<<dt>> : dt \in DateTimes}, b \in IntervalEnds} \cup
    {a \o <<"/">> \o b : a \in IntervalEnds, b \in {<<dt>> : dt \in DateTimes}}

DateInputs ==
    {None}
    \cup {Some([kind |-> "datetime", dt |-> dt]) : dt \in DateTimes}
    \cup {Some([kind |-> "tuple", start |-> a, end |-> b]) :
             a \in OptionalDateTimes, b \in OptionalDateTimes}
    \cup {Some([kind |-> "str", s |-> s]) : s \in DateStrings}

(***************************************************************************)
(* populate_sort_shared (query.py).  A Python dict is the sequence of its  *)
(* entries in insertion order; assigning an existing key keeps its place.  *)
(***************************************************************************)
dict_set(d, k, v) ==
    IF \E i \in 1..Len(d) : d[i].key = k
    THEN [i \in 1..Len(d) |->
            IF d[i].key = k THEN [key |-> k, value |-> v] ELSE d[i]]
    ELSE Append(d, [key |-> k, value |-> v])

\* {s.field: {"order": s.direction} for s in sortby}
RECURSIVE sort_comprehension(_)
sort_comprehension(sortby) ==
    IF sortby = <<>> THEN <<>>
    ELSE LET n == Len(sortby)
         IN  dict_set(sort_comprehension(SubSeq(sortby, 1, n - 1)),
                      sortby[n].field, [order |-> sortby[n].direction])

\* Variant: the comprehension runs over the reversed sortby.
populate_sort_shared_reversed(sortby) ==
    IF Truthy(sortby)
    THEN Some(sort_comprehension(
                 [i \in 1..Len(sortby[1]) |-> sortby[1][Len(sortby[1]) + 1 - i]]))
    ELSE None

populate_sort_shared(sortby) ==
    IF Truthy(sortby) THEN Some(sort_comprehension(sortby[1])) ELSE None

(***************************************************************************)
(* The bodies of POST /search requests, as the validated request model     *)
(* hands them to post_search: bbox and intersects never come together, and *)
(* a model without the filter extension has no `filter` attribute.         *)
(***************************************************************************)
Optional(values) == {None} \cup {Some(v) : v \in values}

SearchDatetimeValues == {<<"2020-01-01T00:00:00Z", "/", "..">>}

QueryValues ==
    {<<[key |-> "gsd", value |-> <<[key |-> "gt", value |-> 10],
                                   [key |-> "lte", value |-> 30]>>],
       [key |-> "proj:epsg", value |-> <<[key |-> "eq", value |-> 4326]>>]>>}

Cql2Values == {[accepted |-> TRUE], [accepted |-> FALSE]}

SortbyValues ==
    {<<[field |-> "properties.datetime", direction |-> "desc"],
       [field |-> "id", direction |-> "asc"]>>}

LimitValues == {1, 2}

\* The bodies that use the fields extension: a projection, with or without
\* a structured query.
FieldsBodies ==
    [ids : {None}, collections : {None}, datetime : {None}, bbox : {None},
     intersects : {None}, has_filter : {FALSE}, filter : {None},
     sortby : {None}, limit : {Some(2)},
     query : Optional({<<[key |-> "gsd", value |-> <<[key |-> "gt", value |-> 10]>>],
                         [key |-> "datetime",
                          value |-> <<[key |-> "lte", value |-> 2021]>>]>>}),
     fields : {Some(x) : x \in
                 [include : {{}, {<<"id">>, <<"properties.", "gsd">>}},
                  exclude : {{}, {<<"geometry">>, <<"properties.", "datetime">>}}]}]

PostSearchBodies ==
    {b \in [ids : Optional(IdsValues),
            collections : Optional(CollectionsValues),
            datetime : Optional(SearchDatetimeValues),
            bbox : Optional(BboxValues),
            intersects : Optional({[type |-> "Polygon"]}),
            query : Optional(QueryValues),
            has_filter : BOOLEAN,
            filter : Optional(Cql2Values),
            sortby : Optional(SortbyValues),
            limit : Optional(LimitValues),
            fields : {None}] :
        /\ ~(b.bbox # None /\ b.intersects # None)
        /\ b.filter # None => b.has_filter}
    \cup FieldsBodies

(***************************************************************************)
(* post_search, statement by statement, up to its await of execute_search. *)
(***************************************************************************)
PostSearchIdsCollectionsDatetime(f) ==
    LET f1 == IF Truthy(f.req.ids)
              THEN Apply(f, "apply_ids_filter", f.req.ids[1]) ELSE f
        f2 == IF Truthy(f.req.collections)
              THEN Apply(f1, "apply_collections_filter", f.req.collections[1])
              ELSE f1
    IN  IF Truthy(f.req.datetime)
        THEN Apply(f2, "apply_datetime_filter",
                   CoreClient_return_date(
                       Some([kind |-> "str", s |-> f.req.datetime[1]])))
        ELSE f2

\* Variant: a 6-value bbox goes to the backend as it came.
PostSearchBbox_as_given(f) ==
    IF Truthy(f.req.bbox) THEN Apply(f, "apply_bbox_filter", f.req.bbox[1])
    ELSE f

PostSearchBbox(f) ==
    IF Truthy(f.req.bbox)
    THEN LET b == f.req.bbox[1]
             bbox == IF Len(b) = 6 THEN <<b[1], b[2], b[4], b[5]>> ELSE b
         IN  Apply(f, "apply_bbox_filter", bbox)
    ELSE f

PostSearchIntersects(f) ==
    IF Truthy(f.req.intersects)
    THEN Apply(f, "apply_intersects_filter", f.req.intersects[1])
    ELSE f

\* for op, value in expr.items(): apply_stacql_filter(search, op, field, value)
RECURSIVE PostSearchOperators(_, _, _)
PostSearchOperators(f, field, expr) ==
    IF expr = <<>> THEN f
    ELSE PostSearchOperators(
             Apply(f, "apply_stacql_filter",
                   [op |-> expr[1].key, field |-> field, value |-> expr[1].value]),
             field, Tail(expr))

\* for field_name, expr in search_request.query.items()
RECURSIVE PostSearchFields(_, _)
PostSearchFields(f, query) ==
    IF query = <<>> THEN f
    ELSE PostSearchFields(
             PostSearchOperators(f, <<"properties__", query[1].key>>,
                                 query[1].value),
             Tail(query))

\* Variant: each application starts again from the accumulator of make_search.
PostSearchQuery_replacing(f) ==
    IF Truthy(f.req.query)
    THEN LET g == PostSearchFields(f, f.req.query[1])
         IN  [g EXCEPT !.search =
                 Bound(<<g.search.val[Len(g.search.val)]>>)]
    ELSE f

PostSearchQuery(f) ==
    IF Truthy(f.req.query) THEN PostSearchFields(f, f.req.query[1]) ELSE f

\* The backend's apply_cql2_filter: an absent filter leaves the accumulator as
\* it is, a filter is composed onto it, and a filter that does not translate
\* raises.
apply_cql2_filter(f, cql2_filter) ==
    LET g == [f EXCEPT !.calls =
                 Append(@, [op |-> "apply_cql2_filter", arg |-> cql2_filter])]
    IN  IF cql2_filter = None THEN g
        ELSE IF cql2_filter[1].accepted
        THEN [g EXCEPT !.search =
                 Bound(Append(f.search.val,
                       [filter |-> "apply_cql2_filter", arg |-> cql2_filter[1]]))]
        ELSE Raise(g, Exception("Exception", <<"cannot translate">>))

PostSearchCql2(f) ==
    IF f.req.has_filter
    THEN LET g == apply_cql2_filter(f, f.req.filter)
         IN  IF g.raised # None
             THEN Raise(g, HTTPException(400, <<"Error with cql2_json filter: ",
                                               g.raised[1].detail>>))
             ELSE g
    ELSE f

\* Variant: execute_search is always asked for the first page.
PostSearchExecute_first_page(f) ==
    [f EXCEPT !.calls = Append(@,
        [op |-> "execute_search",
         arg |-> [search |-> f.search.val,
                  limit |-> IF f.req.limit # None /\ f.req.limit[1] # 0
                            THEN f.req.limit[1] ELSE 10,
                  token |-> None,
                  sort |-> IF Truthy(f.req.sortby)
                           THEN populate_sort_shared(f.req.sortby) ELSE None,
                  collection_ids |-> f.req.collections]])]

\* sort, limit and the call of execute_search.
PostSearchExecute(f) ==
    [f EXCEPT !.calls = Append(@,
        [op |-> "execute_search",
         arg |-> [search |-> f.search.val,
                  limit |-> IF f.req.limit # None /\ f.req.limit[1] # 0
                            THEN f.req.limit[1] ELSE 10,
                  token |-> f.req.token,
                  sort |-> IF Truthy(f.req.sortby)
                           THEN populate_sort_shared(f.req.sortby) ELSE None,
                  collection_ids |-> f.req.collections]])]

\* post_search from its first statement to its await of execute_search.
PostSearch(f) ==
    LET g == PostSearchCql2(PostSearchQuery(PostSearchIntersects(
                 PostSearchBbox(PostSearchIdsCollectionsDatetime(
                     make_search(f))))))
    IN  IF g.raised # None THEN g ELSE PostSearchExecute(g)

(***************************************************************************)
(* item_collection, after get_collection has returned the collection.      *)
(***************************************************************************)
ItemCollectionBbox(f) ==
    IF Truthy(f.req.bbox)
    THEN LET b == f.req.bbox[1]
             \* float(x) of a number is the same number
             bbox == IF Len(b) = 6 THEN <<b[1], b[2], b[4], b[5]>> ELSE b
         IN  Apply(f, "apply_bbox_filter", bbox)
    ELSE f

ItemCollectionSearch(f, found) ==
    IF "id" \notin DOMAIN found
    THEN Raise(f, HTTPException(404, <<"Collection not found">>))
    ELSE LET collection_id == found.id
             f1 == Apply(make_search([f EXCEPT !.collection = Bound(found)]),
                         "apply_collections_filter", <<collection_id>>)
             f2 == IF Truthy(f.req.datetime)
                   THEN Apply(f1, "apply_datetime_filter",
                              CoreClient_return_date(f.req.datetime))
                   ELSE f1
             f3 == ItemCollectionBbox(f2)
         IN  [f3 EXCEPT !.calls = Append(@,
                 [op |-> "execute_search",
                  arg |-> [search |-> f3.search.val,
                           limit |-> f.req.limit,
                           token |-> f.req.token,
                           sort |-> None,
                           collection_ids |-> Some(<<collection_id>>)]])]

(***************************************************************************)
(* The collaborators of the search operations: the backend's               *)
(* execute_search over an unchanged data set in a deterministic order, its *)
(* continuation token, the item serializer and PagingLinks.                *)
(***************************************************************************)
MaxItems == 3

\* The records a query matches, in sort order.
Items == [i \in 1..MaxItems |-> 100 + i]

encode(lastRecord) == <<"after", lastRecord>>

decode(token) == token[2]

execute_search(arg) ==
    LET first == IF arg.token = None THEN 1
                 ELSE 1 + CHOOSE i \in 1..Len(Items) :
                              Items[i] = decode(arg.token[1])
        last == IF first + arg.limit - 1 < Len(Items)
                THEN first + arg.limit - 1 ELSE Len(Items)
        items == SubSeq(Items, first, last)
    IN  [items |-> items,
         maybe_count |-> Some(Len(Items)),
         next_token |-> IF last < Len(Items) THEN Some(encode(Items[last]))
                        ELSE None]

db_to_stac(item) ==
    [type |-> "Feature", stac_version |-> "1.0.0", id |-> item,
     geometry |-> "Point", bbox |-> "bbox", collection |-> "c1",
     links |-> "links", assets |-> "assets",
     properties |-> [gsd |-> 10, datetime |-> "2020-01-01T00:00:00Z"]]

\* PagingLinks.link_next: the link that carries the token of the next page.
link_next(next) == [rel |-> "next", token |-> next]

\* PagingLinks.get_links: self and root, and next when there is a token.
get_links(next) ==
    <<[rel |-> "self"], [rel |-> "root"]>>
    \o (IF next # None THEN <<link_next(next[1])>> ELSE <<>>)

\* The statements of post_search and item_collection after execute_search.
SearchReturn(f, response) ==
    LET items == [i \in 1..Len(response.items) |-> db_to_stac(response.items[i])]
    IN  [f EXCEPT !.db_response = Bound(response),
                  !.results = Bound([type |-> "FeatureCollection",
                                     features |-> items,
                                     links |-> get_links(response.next_token),
                                     numReturned |-> Len(items),
                                     numMatched |-> response.maybe_count])]

\* The fields no projection removes (Field Projection Engine).
ProtectedFields ==
    {"id", "type", "geometry", "bbox", "collection", "links", "assets"}

\* A field, named by its path, survives the projection of `fields`.
Survives(path, fields) ==
    \/ Len(path) = 1 /\ path[1] \in ProtectedFields
    \/ /\ fields.include = {} \/ path \in fields.include
       /\ path \notin fields.exclude

\* fields.filter_fields applied to an item by Item.json: the item without
\* the fields that do not survive.
filter_fields(item, fields) ==
    LET top == {k \in DOMAIN item \ {"properties"} : Survives(<<k>>, fields)}
        props == {k \in DOMAIN item.properties :
                     Survives(<<"properties.", k>>, fields)}
    IN  [k \in top \cup (IF props = {} THEN {} ELSE {"properties"}) |->
            IF k = "properties" THEN [q \in props |-> item.properties[q]]
            ELSE item[k]]

\* Settings.get().indexed_fields
indexed_fields == {"datetime"}

\* The include set of the query's fields.
query_include(query) ==
    {IF query[i].key \in indexed_fields THEN <<query[i].key>>
     ELSE <<"properties.", query[i].key>> : i \in 1..Len(query)}

\* search_request.fields.include after the statements on the query: the
\* result of include.union(query_include) is dropped.
PostSearchInclude(r) ==
    IF r.query # None /\ r.fields[1].include = {}
    THEN query_include(r.query[1])
    ELSE r.fields[1].include

\* Variant: the exclude set is applied to the projected items once more.
PostSearchReturn_exclude_last(f, response) ==
    LET g == SearchReturn(f, response)
    IN  IF f.req.fields = None THEN g
        ELSE LET fields == [include |-> PostSearchInclude(f.req),
                            exclude |-> f.req.fields[1].exclude]
                 items == g.results.val.features
             IN  [g EXCEPT !.req.fields = Some(fields),
                           !.results.val.features =
                               [i \in 1..Len(items) |->
                                   [k \in {x \in DOMAIN filter_fields(items[i], fields) :
                                               <<x>> \notin fields.exclude} |->
                                       filter_fields(items[i], fields)[k]]]]

\* The statements of post_search after execute_search, with the branch of
\* the fields extension.
PostSearchReturn(f, response) ==
    LET g == SearchReturn(f, response)
    IN  IF f.req.fields = None THEN g
        ELSE LET fields == [include |-> PostSearchInclude(f.req),
                            exclude |-> f.req.fields[1].exclude]
                 items == g.results.val.features
             IN  [g EXCEPT !.req.fields = Some(fields),
                           !.results.val.features =
                               [i \in 1..Len(items) |->
                                   filter_fields(items[i], fields)]]

(***************************************************************************)
(* The GET request model of the aggregation extension (request.py): the    *)
(* bbox query parameter is a string, kept here as its numerals and commas. *)
(***************************************************************************)
Numerals ==
    <<[text |-> "-20", value |-> -20], [text |-> "-10", value |-> -10],
      [text |-> "0", value |-> 0], [text |-> "10", value |-> 10],
      [text |-> "20", value |-> 20], [text |-> "100", value |-> 100]>>

\* float(v) of a piece of the string: its number, or ValueError.
float(v) ==
    IF Len(v) = 1 /\ \E i \in 1..Len(Numerals) : Numerals[i].text = v[1]
    THEN [raised |-> None,
          value |-> Numerals[CHOOSE i \in 1..Len(Numerals) :
                                 Numerals[i].text = v[1]].value]
    ELSE [raised |-> Some(Exception("ValueError",
                              <<"could not convert string to float">>))]

str2list(x) == IF Truthy(x) THEN Some(split(x[1], ",")) ELSE None

str2bbox(x) ==
    IF Truthy(x)
    THEN LET l == str2list(x)[1]
         IN  IF \E i \in 1..Len(l) : float(l[i]).raised # None
             THEN [raised |-> float(l[CHOOSE i \in 1..Len(l) :
                                        float(l[i]).raised # None]).raised]
             ELSE IF Len(l) # 4
             THEN [raised |-> Some(Exception("AssertionError", <<>>))]
             ELSE [raised |-> None,
                   value |-> Some([i \in 1..Len(l) |-> float(l[i]).value])]
    ELSE [raised |-> None, value |-> None]

\* The bbox strings of GET requests: boxes of 4 and of 6 values with south
\* below and above north, boxes of 3 and of 5 values, and one that is no
\* number.
BboxStrings ==
    {<<"-10", ",", "-20", ",", "10", ",", "20">>,
     <<"-10", ",", "20", ",", "10", ",", "-20">>,
     <<"-10", ",", "-20", ",", "0", ",", "10", ",", "20", ",", "100">>,
     <<"-10", ",", "20", ",", "0", ",", "10", ",", "-20", ",", "100">>,
     <<"-10", ",", "-20", ",", "10">>,
     <<"-10", ",", "-20", ",", "0", ",", "10", ",", "20">>,
     <<"-10", ",", "north", ",", "10", ",", "20">>}

(***************************************************************************)
(* all_collections.                                                        *)
(***************************************************************************)
\* int(request.query_params.get("limit", 10))
AllCollectionsLimit(r) ==
    IF r.limit = None THEN [raised |-> None, value |-> 10]
    ELSE float(r.limit[1])

\* What get_all_collections may answer: all collections and no token, a
\* page and the token of the next one, nothing and an empty token.
AllCollectionsResponses ==
    {[collections |-> <<"c1", "c2", "c3">>, next_token |-> None],
     [collections |-> <<"c1", "c2">>, next_token |-> Some("c2")],
     [collections |-> <<>>, next_token |-> Some("")]}

\* Variant: the next link is appended whatever the token.
AllCollectionsReturn_always_next(f, response) ==
    [f EXCEPT !.db_response = Bound(response),
              !.results = Bound(
                  [collections |-> response.collections,
                   links |-> <<[rel |-> "root", href |-> base_url],
                               [rel |-> "parent", href |-> base_url],
                               [rel |-> "self",
                                href |-> urljoin(base_url, "collections", TRUE)],
                               link_next(response.next_token)>>])]

\* The statements of all_collections after get_all_collections.
AllCollectionsReturn(f, response) ==
    [f EXCEPT !.db_response = Bound(response),
              !.results = Bound(
                  [collections |-> response.collections,
                   links |-> <<[rel |-> "root", href |-> base_url],
                               [rel |-> "parent", href |-> base_url],
                               [rel |-> "self",
                                href |-> urljoin(base_url, "collections", TRUE)]>>
                             \o (IF TruthyStr(response.next_token)
                                 THEN <<link_next(response.next_token[1])>>
                                 ELSE <<>>)])]

(***************************************************************************)
(* The sortby lists populate_sort_shared is called with: None, the empty   *)
(* list, and lists of at most MaxSortKeys keys.                            *)
(***************************************************************************)
MaxSortKeys == 2

SortKeys == [field : {"id", "properties.datetime"}, direction : {"asc", "desc"}]

SortbyLists ==
    {None} \cup {Some(s) : s \in UNION {[1..n -> SortKeys] : n \in 0..MaxSortKeys}}

(***************************************************************************)
(* get_search: the sortby keys of a GET request, character by character,   *)
(* and the request model it builds for post_search.                        *)
(***************************************************************************)
GetSortbyValues ==
    {<<<<"-", "i", "d">>>>,
     <<<<"i", "d">>>>,
     <<<<"+", "g", "s", "d">>, <<"-", "i", "d">>>>}

\* for sort in sortby: {"field": sort[1:], "direction": ...}
get_search_sortby(sortby) ==
    [i \in 1..Len(sortby) |->
        [field |-> Tail(sortby[i]),
         direction |-> IF Head(sortby[i]) = "-" THEN "desc" ELSE "asc"]]

(***************************************************************************)
(* get_search: datetime, filter and fields of a GET request.               *)
(***************************************************************************)
format_datetime(dt) == IF dt # None THEN strftime_millis_Z(dt[1]) ELSE <<"..">>

\* start, end = date_tuple: a single datetime cannot be unpacked.
_format_datetime_range(date_tuple) ==
    IF date_tuple.kind = "tuple"
    THEN [raised |-> None,
          value |-> format_datetime(date_tuple.start) \o <<"/">>
                    \o format_datetime(date_tuple.end)]
    ELSE [raised |-> Some(Exception("TypeError",
              <<"cannot unpack non-iterable datetime.datetime object">>))]

\* A filter string of a GET request is CQL2-JSON text, CQL2-text or neither,
\* and the predicate it stands for is one the backend translates or not.
\* orjson.loads decodes the first kind only.
loads(s) ==
    IF s.form = "json"
    THEN [raised |-> None,
          value |-> [form |-> "cql2-json", accepted |-> s.accepted]]
    ELSE [raised |-> Some(Exception("JSONDecodeError",
              <<"unexpected character: line 1 column 1 (char 0)">>))]

\* to_cql2(parse_cql2_text(filter)): the CQL2-JSON text of a CQL2-text.
to_cql2_parse_cql2_text(s) ==
    IF s.form = "text"
    THEN [raised |-> None, value |-> [form |-> "json", accepted |-> s.accepted]]
    ELSE [raised |-> Some(Exception("UnexpectedCharacters",
              <<"No terminal matches in the current parser context">>))]

\* Variant: a filter not declared cql2-json goes on as the text it is.
GetSearchFilter_text_as_is(filter, filter_lang) ==
    IF filter_lang = Some("cql2-json") THEN loads(filter)
    ELSE [raised |-> None,
          value |-> [form |-> "cql2-text", accepted |-> filter.accepted]]

\* base_args["filter"] of a request with a filter.
GetSearchFilter(filter, filter_lang) ==
    IF filter_lang = Some("cql2-json") THEN loads(filter)
    ELSE LET lowered == to_cql2_parse_cql2_text(filter)
         IN  IF lowered.raised # None THEN lowered ELSE loads(lowered.value)

\* includes and excludes of the fields parameter.
GetSearchFields(fields) ==
    [include |-> {IF Head(fields[i]) = "+" THEN Tail(fields[i]) ELSE fields[i] :
                     i \in {j \in 1..Len(fields) : Head(fields[j]) # "-"}},
     exclude |-> {Tail(fields[i]) :
                     i \in {j \in 1..Len(fields) : Head(fields[j]) = "-"}}]

\* The keyword arguments of GET /search requests: sortby, datetime, filter
\* with filter_lang (given as argument or found in the query string) and
\* fields; the other arguments stay at their defaults.
GetSearchKwargs ==
    [sortby : Optional(GetSortbyValues),
     datetime : Optional({[kind |-> "datetime", dt |-> "2020-01-01T00:00:00"],
                          [kind |-> "tuple", start |-> Some("2020-01-01T00:00:00"),
                           end |-> Some("2021-06-30T12:00:00")],
                          [kind |-> "tuple", start |-> Some("2020-01-01T00:00:00"),
                           end |-> None],
                          [kind |-> "tuple", start |-> None,
                           end |-> Some("2021-06-30T12:00:00")]}),
     filter : Optional({[form |-> "json", accepted |-> TRUE],
                        [form |-> "json", accepted |-> FALSE],
                        [form |-> "text", accepted |-> TRUE],
                        [form |-> "text", accepted |-> FALSE],
                        [form |-> "garbage", accepted |-> FALSE]}),
     filter_lang : Optional({"cql2-json", "cql2-text"}),
     query_params : {[filter_lang |-> None], [filter_lang |-> Some("cql2-json")]},
     fields : Optional({<<<<"+", "properties.", "gsd">>, <<"-", "geometry">>>>,
                        <<<<"id">>, <<"-", "assets">>, <<"-", "properties.", "gsd">>>>})]

\* get_search up to its call of post_search: base_args and the request model
\* built from it, or the exception a conversion raises.
GetSearchRequest(kwargs, token) ==
    LET filter_lang == IF kwargs.filter_lang = None
                       THEN kwargs.query_params.filter_lang
                       ELSE kwargs.filter_lang
        datetime == IF Truthy(kwargs.datetime)
                    THEN _format_datetime_range(kwargs.datetime[1])
                    ELSE [raised |-> None]
        filter == IF kwargs.filter # None
                  THEN GetSearchFilter(kwargs.filter[1], filter_lang)
                  ELSE [raised |-> None]
    IN  IF datetime.raised # None THEN [raised |-> datetime.raised]
        ELSE IF filter.raised # None THEN [raised |-> filter.raised]
        ELSE [raised |-> None,
              value |->
                [kwargs |-> kwargs,
                 ids |-> None, collections |-> None, bbox |-> None,
                 intersects |-> None, query |-> None, limit |-> Some(10),
                 token |-> token,
                 datetime |-> IF Truthy(kwargs.datetime)
                              THEN Some(datetime.value) ELSE None,
                 sortby |-> IF Truthy(kwargs.sortby)
                            THEN Some(get_search_sortby(kwargs.sortby[1]))
                            ELSE None,
                 has_filter |-> TRUE,
                 filter_lang |-> IF kwargs.filter # None
                                 THEN Some("cql2-json") ELSE None,
                 filter |-> IF kwargs.filter # None
                            THEN Some(filter.value) ELSE None,
                 fields |-> IF Truthy(kwargs.fields)
                            THEN Some(GetSearchFields(kwargs.fields[1]))
                            ELSE None]]

(***************************************************************************)
(* Transactions: the items of one collection in the backend, and the       *)
(* mutation primitives of the database.                                    *)
(***************************************************************************)
ItemIds == {"item1", "item2"}

\* The backend before a transaction: each item is absent or stored in the
\* version an earlier request wrote.
Indexes == [ItemIds -> Optional({"old"})]

\* An item a client sends: its id and collection, in the version it wants
\* stored.
Feature(id, collection_id) ==
    [type |-> "Feature", id |-> id, collection |-> collection_id,
     version |-> "new"]

TxCollections == {"c1", "missing"}

NotFoundError(detail) == Exception("NotFoundError", detail)

ConflictError(detail) == Exception("ConflictError", detail)

\* A backend call on the frame's record of calls.
BackendCall(f, name, arg) ==
    [f EXCEPT !.calls = Append(@, [op |-> name, arg |-> arg])]

\* database.check_collection_exists, awaited: None, or NotFoundError.
await_check_collection_exists(collection_id) ==
    IF collection_id \in DOMAIN Catalog THEN None
    ELSE Some(NotFoundError(<<"Collection", collection_id, "does not exist">>))

\* database.prep_create_item and sync_prep_create_item: the collection must
\* exist and, unless exist_ok, the item must not.
prep_create_item(idx, item, exist_ok) ==
    IF await_check_collection_exists(item.collection) # None
    THEN [raised |-> await_check_collection_exists(item.collection)]
    ELSE IF ~exist_ok /\ idx[item.id] # None
    THEN [raised |-> Some(ConflictError(<<"Item", item.id, "in collection",
                                          item.collection, "already exists">>))]
    ELSE [raised |-> None, value |-> item]

\* database.create_item indexes the document.
db_create_item(idx, item) ==
    [raised |-> None, index |-> [idx EXCEPT ![item.id] = Some(item.version)]]

\* database.delete_item removes the document, NotFoundError when there is
\* none.
db_delete_item(idx, item_id, collection_id) ==
    IF collection_id \in DOMAIN Catalog /\ idx[item_id] # None
    THEN [raised |-> None, index |-> [idx EXCEPT ![item_id] = None]]
    ELSE [raised |-> Some(NotFoundError(<<"Item", item_id, "in collection",
                                          collection_id, "not found">>)),
          index |-> idx]

\* database.get_one_item
get_one_item(idx, item_id, collection_id) ==
    IF collection_id \in DOMAIN Catalog /\ idx[item_id] # None
    THEN [raised |-> None, value |-> [id |-> item_id, version |-> idx[item_id][1]]]
    ELSE [raised |-> Some(NotFoundError(<<"Item", item_id, "in collection",
                                          collection_id, "does not exist">>))]

\* The bulk helper indexes the first `success` documents of the batch and
\* reports how many it indexed and how many it could not.
RECURSIVE bulk_index(_, _, _)
bulk_index(idx, processed_items, success) ==
    IF success = 0 THEN idx
    ELSE bulk_index([idx EXCEPT ![processed_items[1].id] =
                        Some(processed_items[1].version)],
                    Tail(processed_items), success - 1)

BulkReports(processed_items) ==
    {[success |-> k, errors |-> Len(processed_items) - k] :
        k \in 0..Len(processed_items)}

\* The batches of a bulk request: items.items is keyed by id.
Batches ==
    {<<>>} \cup {<<a>> : a \in ItemIds}
           \cup {b \in ItemIds \X ItemIds : b[1] # b[2]}

\* [preprocess_item(item, base_url, method) for item in ...]: the first
\* item that cannot be prepared raises.
RECURSIVE preprocess_items(_, _, _)
preprocess_items(idx, items, method) ==
    IF items = <<>> THEN [raised |-> None, value |-> <<>>]
    ELSE LET first == prep_create_item(idx, items[1], method = "upsert")
             rest == preprocess_items(idx, Tail(items), method)
         IN  IF first.raised # None THEN first
             ELSE IF rest.raised # None THEN rest
             ELSE [raised |-> None, value |-> <<first.value>> \o rest.value]

\* The message bulk_item_insert returns.
SuccessfullyAdded(n) == <<"Successfully added ", n, " Items.">>

\* f"Successfully added {len(processed_items)} Items."
bulk_item_insert_message(processed_items, report) ==
    SuccessfullyAdded(Len(processed_items))

\* bulk_item_insert({items, method}) against the backend idx, whose bulk call
\* reports `report`: the frame and the backend it leaves.
bulk_item_insert(f, idx, report) ==
    LET processed == preprocess_items(idx, f.req.items, f.req.method)
    IN  IF processed.raised # None
        THEN [f |-> Raise(f, processed.raised[1]), index |-> idx]
        ELSE IF processed.value = <<>>
        THEN [f |-> Raise(f, Exception("IndexError",
                                       <<"list index out of range">>)),
              index |-> idx]
        ELSE LET g == BackendCall(f, "bulk_sync",
                          [collection_id |-> processed.value[1].collection,
                           processed_items |-> processed.value])
             IN  [f |-> [g EXCEPT
                     !.db_response = Bound(report),
                     !.results = Bound(bulk_item_insert_message(
                                           processed.value, report))],
                  index |-> bulk_index(idx, processed.value, report.success)]

BulkRequests ==
    {[items |-> [i \in 1..Len(b) |-> Feature(b[i], c)], method |-> m] :
        b \in Batches, c \in TxCollections, m \in {"insert", "upsert"}}

\* The requests of create_item: one item, or a feature collection.
CreateItemRequests ==
    {[collection_id |-> c, item |-> Feature(i, c)] :
        c \in TxCollections, i \in ItemIds}
    \cup {[collection_id |-> "c1",
           item |-> [type |-> "FeatureCollection",
                     features |-> [i \in 1..Len(b) |-> Feature(b[i], "c1")]]] :
            b \in Batches}

UpdateItemRequests ==
    {[collection_id |-> c, item_id |-> i, item |-> Feature(j, c)] :
        c \in TxCollections, i \in ItemIds, j \in ItemIds}

DeleteItemRequests ==
    {[collection_id |-> c, item_id |-> i] : c \in TxCollections, i \in ItemIds}

\* create_item up to its first await: a feature collection is preprocessed
\* and handed to bulk_async, one item goes to prep_create_item.
create_item(f, idx) ==
    IF f.req.item.type = "FeatureCollection"
    THEN LET processed == preprocess_items(idx, f.req.item.features, "insert")
         IN  IF processed.raised # None
             THEN [f |-> Raise(f, processed.raised[1]), pc |-> "done"]
             ELSE [f |-> BackendCall(f, "bulk_async",
                            [collection_id |-> f.req.collection_id,
                             processed_items |-> processed.value]),
                   pc |-> "bulk_async"]
    ELSE [f |-> BackendCall(f, "prep_create_item", f.req.item),
          pc |-> "prep_create_item"]

\* A transaction that has run to its next await, on the backend idx.
On(t, idx) == [f |-> t.f, index |-> idx, pc |-> t.pc]

\* The awaits of the transaction operations.
TxAwaits ==
    {"check_collection_exists", "delete_item", "prep_create_item",
     "create_item", "bulk_async"}

\* The awaited backend call answers and the operation `name` runs on to its
\* next await or to its end.
TxResume(name, at, f, idx) ==
    CASE at = "check_collection_exists" ->
           IF await_check_collection_exists(f.req.collection_id) # None
           THEN [f |-> Raise(f, await_check_collection_exists(f.req.collection_id)[1]),
                 index |-> idx, pc |-> "done"]
           ELSE [f |-> BackendCall(f, "delete_item",
                           [item_id |-> f.req.item_id,
                            collection_id |-> f.req.collection_id]),
                 index |-> idx, pc |-> "delete_item"]
      [] at = "delete_item" ->
           LET d == db_delete_item(idx, f.req.item_id, f.req.collection_id)
           IN  IF d.raised # None
               THEN [f |-> Raise(f, d.raised[1]), index |-> idx, pc |-> "done"]
               ELSE IF name = "update_item"
               THEN On(create_item(f, d.index), d.index)
               ELSE [f |-> [f EXCEPT !.results = Bound(None)],
                     index |-> d.index, pc |-> "done"]
      [] at = "prep_create_item" ->
           LET p == prep_create_item(idx, f.req.item, FALSE)
           IN  IF p.raised # None
               THEN [f |-> Raise(f, p.raised[1]), index |-> idx, pc |-> "done"]
               ELSE [f |-> BackendCall(f, "create_item", p.value),
                     index |-> idx, pc |-> "create_item"]
      [] at = "create_item" ->
           [f |-> [f EXCEPT !.results = Bound(db_to_stac(f.req.item.id))],
            index |-> db_create_item(idx, f.req.item).index, pc |-> "done"]
      [] at = "bulk_async" ->
           [f |-> [f EXCEPT !.results = Bound(None)],
            index |-> bulk_index(idx, f.req.item.features,
                                 Len(f.req.item.features)),
            pc |-> "done"]

(***************************************************************************)
(* The state: where the handler is, and its frame.                         *)
(***************************************************************************)
VARIABLES
    pc,                      \* idle, done, or the await the handler is at
    op,                      \* the operation in progress, "none" when idle
    session,                 \* what a paging client has collected so far
    req,                     \* the parameters of the call, None when idle
    search,                  \* the query accumulator
    calls,                   \* the backend calls made, in order
    collection,
    collection_endpoint,
    aggregations_requested,
    precisions,              \* the eight precisions handed to the backend
    db_response,
    error,                   \* the exception database.aggregate raised
    results,                 \* the response
    raised,                  \* the exception that ended the call, or None
    index,                   \* the items of the backend a transaction runs on
    other                    \* a request running at the same time, or None

vars == <<pc, op, session, req, search, calls, collection, collection_endpoint,
          aggregations_requested, precisions, db_response, error, results,
          raised, index, other>>

Cur ==
    [req |-> req, search |-> search, calls |-> calls, collection |-> collection,
     collection_endpoint |-> collection_endpoint,
     aggregations_requested |-> aggregations_requested,
     precisions |-> precisions, db_response |-> db_response,
     error |-> error, results |-> results, raised |-> raised]

Store(f) ==
    /\ req' = f.req
    /\ search' = f.search
    /\ calls' = f.calls
    /\ collection' = f.collection
    /\ collection_endpoint' = f.collection_endpoint
    /\ aggregations_requested' = f.aggregations_requested
    /\ precisions' = f.precisions
    /\ db_response' = f.db_response
    /\ error' = f.error
    /\ results' = f.results
    /\ raised' = f.raised

Init ==
    /\ pc = "idle"
    /\ op = "none"
    /\ session = None
    /\ req = None
    /\ search = Unbound
    /\ calls = <<>>
    /\ collection = Unbound
    /\ collection_endpoint = Unbound
    /\ aggregations_requested = Unbound
    /\ precisions = Unbound
    /\ db_response = Unbound
    /\ error = Unbound
    /\ results = Unbound
    /\ raised = None
    /\ index = Unbound
    /\ other = None

\* aggregate starts on request r and runs to its first await.
Start(r) ==
    LET f0 == CheckBboxOrIntersects(Frame(r))
        f1 == IF f0.raised # None THEN f0 ELSE make_search(f0)
    IN  IF f1.raised # None THEN f1
        ELSE IF TruthyStr(r.collection_id) THEN ScopeCollection(f1)
        ELSE FiltersAndValidation(ScopeCatalog(f1))

\* aggregate is called with a request that supplies at most MaxSupplied
\* values.
AggregateCall ==
    /\ pc = "idle"
    /\ \E aggregations \in AggregationLists(MaxSupplied) :
       LET b1 == MaxSupplied - (IF aggregations = None THEN 0
                                ELSE Len(aggregations[1]))
       IN
       \E collection_id \in Supplied(CollectionIds, b1) :
       LET b2 == b1 - Used(collection_id) IN
       \E collections \in Supplied(CollectionsValues, b2) :
       LET b3 == b2 - Used(collections) IN
       \E bbox \in Supplied(BboxValues, b3) :
       LET b4 == b3 - Used(bbox) IN
       \E intersects \in Supplied(IntersectsValues, b4) :
       LET b5 == b4 - Used(intersects) IN
       \E datetime \in Supplied(DatetimeValues, b5) :
       LET b6 == b5 - Used(datetime) IN
       \E ids \in Supplied(IdsValues, b6) :
       LET b7 == b6 - Used(ids) IN
       \E filter \in Supplied(FilterValues, b7) :
       LET b8 == b7 - Used(filter) IN
       \E q \in PrecisionTable[b8] :
       \E f \in {Start(Request(aggregations, collection_id, collections, bbox,
                               intersects, datetime, ids, filter, q))} :
           /\ Store(f)
           /\ pc' = IF f.raised # None THEN "done"
                    ELSE IF TruthyStr(collection_id) THEN "find_collection"
                    ELSE "db_aggregate"
           /\ op' = "aggregate"
           /\ UNCHANGED session
    /\ UNCHANGED <<index, other>>

\* find_collection returns the collection; aggregate runs to its next await.
FindCollectionReturns ==
    /\ pc = "find_collection"
    /\ req.collection_id[1] \in DOMAIN Catalog
    /\ LET f == FiltersAndValidation(
                    ScopeFound(Cur, Catalog[req.collection_id[1]]))
       IN  /\ Store(f)
           /\ pc' = IF f.raised # None THEN "done" ELSE "db_aggregate"
    /\ UNCHANGED <<op, session>>
    /\ UNCHANGED <<index, other>>

\* find_collection raises NotFoundError, which aggregate does not catch.
FindCollectionRaises ==
    /\ pc = "find_collection"
    /\ req.collection_id[1] \notin DOMAIN Catalog
    /\ Store(Raise(Cur, Exception("NotFoundError",
                                  <<"Collection", req.collection_id[1], "not found">>)))
    /\ pc' = "done"
    /\ UNCHANGED <<op, session>>
    /\ UNCHANGED <<index, other>>

\* database.aggregate returns; aggregate shapes the response.
DbAggregateReturns(response) ==
    /\ pc = "db_aggregate"
    /\ Store(Shape([Cur EXCEPT !.db_response = Bound(response)]))
    /\ pc' = "done"
    /\ UNCHANGED <<op, session>>
    /\ UNCHANGED <<index, other>>

\* database.aggregate raises; aggregate goes through its except clause.
DbAggregateRaises(exc) ==
    /\ pc = "db_aggregate"
    /\ LET f == DbRaised(Cur, exc)
       IN  Store(IF f.raised # None THEN f ELSE Shape(f))
    /\ pc' = "done"
    /\ UNCHANGED <<op, session>>
    /\ UNCHANGED <<index, other>>

\* The response or the error goes to the caller and the frame is dropped.
Respond ==
    /\ pc = "done"
    /\ other = None
    /\ Store(Frame(None))
    /\ index' = Unbound
    /\ UNCHANGED other
    /\ pc' = IF session # None /\ raised = None THEN "paging" ELSE "idle"
    /\ op' = "none"
    /\ session' = IF raised = None THEN session ELSE None

\* get_aggregations is called and runs to its await or to its return.
GetAggregationsCall ==
    /\ pc = "idle"
    /\ \E collection_id \in Supplied(CollectionIds, 1) :
       LET f0 == GetAggregationsFrame([collection_id |-> collection_id])
           f == IF TruthyStr(collection_id) THEN GetAggregationsScoped(f0)
                ELSE GetAggregationsCatalog(f0)
       IN  /\ Store(f)
           /\ pc' = IF f.raised = None /\ TruthyStr(collection_id)
                    THEN "get_aggregations_find_collection" ELSE "done"
    /\ op' = "get_aggregations"
    /\ UNCHANGED session
    /\ UNCHANGED <<index, other>>

\* find_collection answers get_aggregations: the collection, or NotFoundError.
GetAggregationsFindCollectionReturns ==
    /\ pc = "get_aggregations_find_collection"
    /\ IF req.collection_id[1] \in DOMAIN Catalog
       THEN Store(GetAggregationsFound(Cur, Catalog[req.collection_id[1]]))
       ELSE Store(Raise(Cur, Exception("NotFoundError",
                   <<"Collection", req.collection_id[1], "not found">>)))
    /\ pc' = "done"
    /\ UNCHANGED <<op, session>>
    /\ UNCHANGED <<index, other>>

\* _return_date of either client is called on a datetime value and returns.
ReturnDateCall ==
    /\ pc = "idle"
    /\ \E client \in {"CoreClient", "EsAsyncAggregationClient"} :
       \E interval \in DateInputs :
          Store([Frame([client |-> client, interval |-> interval]) EXCEPT
                    !.results = Bound(IF client = "CoreClient"
                                      THEN CoreClient_return_date(interval)
                                      ELSE _return_date(interval))])
    /\ pc' = "done"
    /\ op' = "_return_date"
    /\ UNCHANGED session
    /\ UNCHANGED <<index, other>>

\* The request post_search gets: a body and the token of the page asked for.
PostSearchRequest(body, token) ==
    [k \in DOMAIN body \cup {"token"} |->
        IF k = "token" THEN token ELSE body[k]]

\* The token a client finds in the next link of a response, if any.
NextOf(links) ==
    IF \E i \in 1..Len(links) : links[i].rel = "next"
    THEN Some(links[CHOOSE i \in 1..Len(links) : links[i].rel = "next"].token)
    ELSE None

MaxPages == 4

\* The tokens the paging client has been given so far.
ReceivedTokens ==
    IF session = None \/ Len(session[1].pages) >= MaxPages THEN {}
    ELSE {session[1].pages[i].next : i \in 1..Len(session[1].pages)} \ {None}

\* post_search is called for the first page of a search.
PostSearchCall ==
    /\ pc = "idle"
    /\ \E body \in PostSearchBodies :
       LET f == PostSearch(Frame(PostSearchRequest(body, None)))
       IN  /\ Store(f)
           /\ pc' = IF f.raised # None THEN "done" ELSE "execute_search"
           /\ session' = Some([op |-> "post_search", body |-> body,
                               pages |-> <<>>])
    /\ op' = "post_search"
    /\ UNCHANGED <<index, other>>

\* item_collection is called for the first page and awaits get_collection.
ItemCollectionCall ==
    /\ pc = "idle"
    /\ \E collection_id \in CollectionIds :
       \E bbox \in Optional(BboxValues) :
       \E datetime \in Optional(DatetimeValues) :
       \E limit \in {10} \cup LimitValues :
       LET body == [collection_id |-> collection_id, bbox |-> bbox,
                    datetime |-> datetime, limit |-> limit]
       IN  /\ Store(Frame(PostSearchRequest(body, None)))
           /\ session' = Some([op |-> "item_collection", body |-> body,
                               pages |-> <<>>])
    /\ pc' = "get_collection"
    /\ op' = "item_collection"
    /\ UNCHANGED <<index, other>>

\* The client asks for another page of its search with a token it was given:
\* the one of the last page, or an earlier one again.
NextPage ==
    /\ pc = "paging"
    /\ \E token \in ReceivedTokens :
       LET r == PostSearchRequest(session[1].body, token)
       IN  IF session[1].op = "item_collection"
           THEN /\ Store(Frame(r))
                /\ pc' = "get_collection"
           ELSE LET f == PostSearch(Frame(r))
                IN  /\ Store(f)
                    /\ pc' = IF f.raised # None THEN "done"
                             ELSE "execute_search"
    /\ op' = session[1].op
    /\ UNCHANGED session
    /\ UNCHANGED <<index, other>>

\* The client gives up its search.
EndSession ==
    /\ pc = "paging"
    /\ pc' = "idle"
    /\ session' = None
    /\ UNCHANGED <<op, req, search, calls, collection, collection_endpoint,
                   aggregations_requested, precisions, db_response, error,
                   results, raised>>
    /\ UNCHANGED <<index, other>>

\* get_collection answers item_collection: the collection, or NotFoundError.
ItemCollectionGetCollectionReturns ==
    /\ pc = "get_collection"
    /\ LET f == IF req.collection_id \in DOMAIN Catalog
                THEN ItemCollectionSearch(Cur, Catalog[req.collection_id])
                ELSE Raise(Cur, Exception("NotFoundError",
                               <<"Collection", req.collection_id, "not found">>))
       IN  /\ Store(f)
           /\ pc' = IF f.raised # None THEN "done" ELSE "execute_search"
    /\ UNCHANGED <<op, session>>
    /\ UNCHANGED <<index, other>>

\* execute_search returns a page; the operation builds its response, which
\* the client files under the token it asked with.
ExecuteSearchReturns ==
    /\ pc = "execute_search"
    /\ LET response == execute_search(calls[Len(calls)].arg)
           f == IF op = "item_collection" THEN SearchReturn(Cur, response)
                ELSE PostSearchReturn(Cur, response)
       IN  /\ Store(f)
           /\ session' = Some([session[1] EXCEPT !.pages =
                   Append(@, [token |-> req.token,
                              items |-> [i \in 1..Len(f.results.val.features) |->
                                            f.results.val.features[i].id],
                              next |-> NextOf(f.results.val.links)])])
    /\ pc' = "done"
    /\ UNCHANGED op
    /\ UNCHANGED <<index, other>>

\* GET /aggregate with a bbox parameter: the request model converts the
\* string, and aggregate is called with the converted value.
AggregateGetCall ==
    /\ pc = "idle"
    /\ \E x \in BboxStrings :
       LET b == str2bbox(Some(x))
       IN  IF b.raised # None
           THEN /\ Store(Raise(Frame([bbox |-> Some(x)]), b.raised[1]))
                /\ pc' = "done"
                /\ op' = "AggregationExtensionGetRequest"
           ELSE \E q \in PrecisionTable[0] :
                \E f \in {Start(Request(None, None, None, b.value, None, None,
                                        None, None, q))} :
                   /\ Store(f)
                   /\ pc' = IF f.raised # None THEN "done" ELSE "db_aggregate"
                   /\ op' = "aggregate"
    /\ UNCHANGED session
    /\ UNCHANGED <<index, other>>

\* all_collections is called and awaits get_all_collections, unless its
\* limit parameter is no number.
AllCollectionsCall ==
    /\ pc = "idle"
    /\ \E limit \in Optional({<<"2">>, <<"two">>}) :
       \E token \in Optional({"c2"}) :
       LET r == [limit |-> limit, token |-> token]
           n == AllCollectionsLimit(r)
       IN  IF n.raised # None
           THEN /\ Store(Raise(Frame(r), n.raised[1]))
                /\ pc' = "done"
           ELSE /\ Store([Frame(r) EXCEPT !.calls =
                       <<[op |-> "get_all_collections",
                          arg |-> [token |-> token, limit |-> n.value,
                                   base_url |-> base_url]]>>])
                /\ pc' = "get_all_collections"
    /\ op' = "all_collections"
    /\ UNCHANGED session
    /\ UNCHANGED <<index, other>>

\* get_all_collections returns; all_collections builds its response.
GetAllCollectionsReturns(response) ==
    /\ pc = "get_all_collections"
    /\ Store(AllCollectionsReturn(Cur, response))
    /\ pc' = "done"
    /\ UNCHANGED <<op, session>>
    /\ UNCHANGED <<index, other>>

\* populate_sort_shared is called on a sortby list and returns.
PopulateSortCall ==
    /\ pc = "idle"
    /\ \E sortby \in SortbyLists :
          Store([Frame([sortby |-> sortby]) EXCEPT
                    !.results = Bound(populate_sort_shared(sortby))])
    /\ pc' = "done"
    /\ op' = "populate_sort_shared"
    /\ UNCHANGED session
    /\ UNCHANGED <<index, other>>

\* get_search is called, builds the search request and runs
\* post_search to its await of execute_search.
GetSearchCall ==
    /\ pc = "idle"
    /\ \E kwargs \in GetSearchKwargs :
       LET r == GetSearchRequest(kwargs, None)
       IN  IF r.raised # None
           THEN /\ Store(Raise(Frame([kwargs |-> kwargs]), r.raised[1]))
                /\ pc' = "done"
                /\ session' = None
           ELSE LET f == PostSearch(Frame(r.value))
                IN  /\ Store(f)
                    /\ pc' = IF f.raised # None THEN "done"
                             ELSE "execute_search"
                    /\ session' = Some([op |-> "get_search", body |-> r.value,
                                        pages |-> <<>>])
    /\ op' = "get_search"
    /\ UNCHANGED <<index, other>>

\* create_item is called against some backend and runs to its first await.
CreateItemCall ==
    /\ pc = "idle"
    /\ \E r \in CreateItemRequests, idx \in Indexes :
       \E t \in {create_item(Frame(r), idx)} :
           /\ Store(t.f)
           /\ pc' = t.pc
           /\ index' = Bound(idx)
    /\ op' = "create_item"
    /\ UNCHANGED <<session, other>>

\* update_item is called and awaits check_collection_exists.
UpdateItemCall ==
    /\ pc = "idle"
    /\ \E r \in UpdateItemRequests, idx \in Indexes :
       /\ Store(BackendCall(Frame(r), "check_collection_exists", r.collection_id))
       /\ index' = Bound(idx)
    /\ pc' = "check_collection_exists"
    /\ op' = "update_item"
    /\ UNCHANGED <<session, other>>

\* delete_item is called and awaits database.delete_item.
DeleteItemCall ==
    /\ pc = "idle"
    /\ \E r \in DeleteItemRequests, idx \in Indexes :
       /\ Store(BackendCall(Frame(r), "delete_item",
                    [item_id |-> r.item_id, collection_id |-> r.collection_id]))
       /\ index' = Bound(idx)
    /\ pc' = "delete_item"
    /\ op' = "delete_item"
    /\ UNCHANGED <<session, other>>

\* The backend call a transaction awaits answers.
TxBackendReturns ==
    /\ pc \in TxAwaits
    /\ \E t \in {TxResume(op, pc, Cur, index.val)} :
           /\ Store(t.f)
           /\ index' = Bound(t.index)
           /\ pc' = t.pc
    /\ UNCHANGED <<op, session, other>>

\* The backend call a transaction awaits fails and changes nothing.
TxBackendRaises ==
    /\ pc \in TxAwaits
    /\ Store(Raise(Cur, Exception("ConnectionError", <<"backend unavailable">>)))
    /\ pc' = "done"
    /\ UNCHANGED <<op, session, index, other>>

\* bulk_item_insert runs from call to return: it does not await.
BulkItemInsertCall ==
    /\ pc = "idle"
    /\ \E r \in BulkRequests, idx \in Indexes :
       \E report \in BulkReports(r.items) :
          \E t \in {bulk_item_insert(Frame(r), idx, report)} :
              /\ Store(t.f)
              /\ index' = Bound(t.index)
    /\ pc' = "done"
    /\ op' = "bulk_item_insert"
    /\ UNCHANGED <<session, other>>

(***************************************************************************)
(* Read requests as coroutines: from the call to the first await, and from *)
(* the answer of the awaited backend call to the next await or the end.    *)
(***************************************************************************)
Answer(value) == [returned |-> TRUE, value |-> value]

Failure(exc) == [returned |-> FALSE, exc |-> exc]

\* What database.aggregate may answer.
DbAnswers == {Answer(x) : x \in DbResponses} \cup {Failure(e) : e \in DbErrors}

\* A coroutine that has run to the await `at`, or has ended by raising.
Suspended(f, at) == [f |-> f, pc |-> IF f.raised # None THEN "done" ELSE at]

\* aggregate after database.aggregate raised: an IndexError is shaped into a
\* response, anything else has been raised again.
AfterDbRaised(g) == IF g.raised # None THEN g ELSE Shape(g)

ReadStart(name, r) ==
    CASE name = "aggregate" ->
           Suspended(Start(r), IF TruthyStr(r.collection_id)
                               THEN "find_collection" ELSE "db_aggregate")
      [] name = "get_aggregations" ->
           IF TruthyStr(r.collection_id)
           THEN Suspended(GetAggregationsScoped(GetAggregationsFrame(r)),
                          "get_aggregations_find_collection")
           ELSE Suspended(GetAggregationsCatalog(GetAggregationsFrame(r)), "done")
      [] name = "post_search" ->
           Suspended(PostSearch(Frame(r)), "execute_search")
      [] name = "get_item" ->
           Suspended(BackendCall(Frame(r), "get_one_item", r), "get_one_item")

ReadResume(name, at, f, answer) ==
    CASE at = "find_collection" ->
           IF f.req.collection_id[1] \in DOMAIN Catalog
           THEN Suspended(FiltersAndValidation(
                              ScopeFound(f, Catalog[f.req.collection_id[1]])),
                          "db_aggregate")
           ELSE Suspended(Raise(f, Exception("NotFoundError",
                           <<"Collection", f.req.collection_id[1], "not found">>)),
                          "done")
      [] at = "db_aggregate" ->
           IF answer.returned
           THEN Suspended(Shape([f EXCEPT !.db_response = Bound(answer.value)]),
                          "done")
           ELSE Suspended(AfterDbRaised(DbRaised(f, answer.exc)), "done")
      [] at = "get_aggregations_find_collection" ->
           IF f.req.collection_id[1] \in DOMAIN Catalog
           THEN Suspended(GetAggregationsFound(f, Catalog[f.req.collection_id[1]]),
                          "done")
           ELSE Suspended(Raise(f, Exception("NotFoundError",
                           <<"Collection", f.req.collection_id[1], "not found">>)),
                          "done")
      [] at = "execute_search" ->
           Suspended(PostSearchReturn(f, execute_search(f.calls[Len(f.calls)].arg)),
                     "done")
      [] at = "get_one_item" ->
           IF answer.value.raised # None
           THEN Suspended(Raise(f, answer.value.raised[1]), "done")
           ELSE Suspended([f EXCEPT
                    !.db_response = Bound(answer.value.value),
                    !.results = Bound(db_to_stac(answer.value.value.id))],
                          "done")

\* The request run with nothing beside it: from its call, through the
\* answers the backend gave it.
RECURSIVE RunOn(_, _, _)
RunOn(name, s, answers) ==
    IF s.pc = "done" \/ answers = <<>> THEN s
    ELSE RunOn(name, ReadResume(name, s.pc, s.f, answers[1]), Tail(answers))

Alone(name, r, answers) == RunOn(name, ReadStart(name, r), answers)

\* The read requests that are run side by side.
NoPrecisions == [i \in 1..Len(PrecisionParams) |-> None]

ConcurrentReads ==
    {[op |-> "aggregate",
      req |-> Request(Some(<<"total_count">>), c, None, None, None, None, None,
                      None, NoPrecisions)] : c \in {None, Some("c2"), Some("cX")}}
    \cup {[op |-> "aggregate",
           req |-> Request(Some(<<"total_count">>), None, None,
                           Some(<<-10, -20, 10, 20>>), Some([type |-> "Polygon"]),
                           None, None, None, NoPrecisions)]}
    \cup {[op |-> "get_aggregations", req |-> [collection_id |-> c]] :
            c \in {None, Some("c1"), Some("cX")}}
    \cup {[op |-> "post_search", req |-> PostSearchRequest(b, None)] :
            b \in {x \in FieldsBodies : x.query # None}}

GetItemRequests ==
    {[op |-> "get_item", req |-> [item_id |-> i, collection_id |-> c]] :
        i \in ItemIds, c \in TxCollections}

\* The variables of the request whose frame is the state.
main == <<pc, op, session, req, search, calls, collection, collection_endpoint,
          aggregations_requested, precisions, db_response, error, results,
          raised, index>>

\* Where a second request may arrive: a read beside a suspended read, a
\* get_item beside a transaction that is suspended or has just ended.
Beside ==
    IF op \in {"create_item", "update_item", "delete_item"}
            /\ pc \in TxAwaits \cup {"done"}
    THEN GetItemRequests
    ELSE IF pc \in {"find_collection", "db_aggregate", "execute_search",
                    "get_aggregations_find_collection"}
            /\ [op |-> op, req |-> req] \in ConcurrentReads
    THEN ConcurrentReads
    ELSE {}

\* Variant: the query accumulator is one object that every request uses.
Resumed_shared_search(o) == [o.f EXCEPT !.search = search]

\* The locals a suspended request resumes with are its own.
Resumed(o) == o.f

\* What the backend may answer to the call the second request awaits.
AnswersAt(o) ==
    CASE o.pc = "db_aggregate" -> DbAnswers
      [] o.pc = "get_one_item" ->
           {Answer(get_one_item(index.val, o.f.req.item_id,
                                o.f.req.collection_id))}
      [] OTHER -> {Answer(None)}

\* A second request is called while the first is suspended, and runs to its
\* first await.
OtherCall ==
    /\ other = None
    /\ \E c \in Beside :
       \E s \in {ReadStart(c.op, c.req)} :
           other' = Some([op |-> c.op, pc |-> s.pc, f |-> s.f, answers |-> <<>>])
    /\ UNCHANGED main

\* The backend answers the second request, which runs to its next await or
\* to its end.
OtherBackendReturns ==
    /\ other # None
    /\ other[1].pc # "done"
    /\ \E answer \in AnswersAt(other[1]) :
       \E s \in {ReadResume(other[1].op, other[1].pc, Resumed(other[1]), answer)} :
           other' = Some([op |-> other[1].op, pc |-> s.pc, f |-> s.f,
                          answers |-> Append(other[1].answers, answer)])
    /\ UNCHANGED main

\* The second request's response or error goes to its caller.
OtherRespond ==
    /\ other # None
    /\ other[1].pc = "done"
    /\ other' = None
    /\ UNCHANGED main

Next ==
    \/ AggregateCall
    \/ GetAggregationsCall
    \/ GetAggregationsFindCollectionReturns
    \/ ReturnDateCall
    \/ PopulateSortCall
    \/ GetSearchCall
    \/ AllCollectionsCall
    \/ \E response \in AllCollectionsResponses : GetAllCollectionsReturns(response)
    \/ AggregateGetCall
    \/ PostSearchCall
    \/ ItemCollectionCall
    \/ ItemCollectionGetCollectionReturns
    \/ ExecuteSearchReturns
    \/ NextPage
    \/ EndSession
    \/ FindCollectionReturns
    \/ FindCollectionRaises
    \/ \E response \in DbResponses : DbAggregateReturns(response)
    \/ \E exc \in DbErrors : DbAggregateRaises(exc)
    \/ CreateItemCall
    \/ UpdateItemCall
    \/ DeleteItemCall
    \/ TxBackendReturns
    \/ TxBackendRaises
    \/ BulkItemInsertCall
    \/ OtherCall
    \/ OtherBackendReturns
    \/ OtherRespond
    \/ Respond

Spec == Init /\ [][Next]_vars

(***************************************************************************)
(* Properties.  They are stated on the request as it was received and on   *)
(* what the caller and the backend see: the exception or the response, and *)
(* the backend calls made.                                                 *)
(***************************************************************************)
Active == pc # "idle" /\ op = "aggregate"

Ended == pc = "done" /\ op = "aggregate"

Returned == Ended /\ raised = None /\ results.bound

\* The names the request asks for, as received.
RequestedNames ==
    IF req.aggregations = None THEN <<>> ELSE req.aggregations[1]

BackendOps == {calls[i].op : i \in 1..Len(calls)}

RaisedHTTP(status_code) ==
    /\ raised # None
    /\ raised[1].exc = "HTTPException"
    /\ raised[1].status_code = status_code

RaisedClientError == \E status_code \in 400..499 : RaisedHTTP(status_code)

RaisedUnbound(name) ==
    raised = Some([exc |-> "UnboundLocalError", detail |-> <<name>>])

\* The request is refused before its aggregation names are looked at: both
\* spatial parameters, a Feature as geometry, or a filter that is not accepted.
RefusedBeforeNames ==
    \/ req.bbox # None /\ req.intersects # None
    \/ req.intersects # None
       /\ req.intersects[1].type \in {"Feature", "FeatureCollection"}
    \/ req.filter # None /\ ~(req.filter[1].json /\ req.filter[1].accepted)

\* The request names a collection the backend holds.
ScopedToCollection ==
    req.collection_id # None /\ req.collection_id[1] \in DOMAIN Catalog

\* ... and that collection declares a non-empty aggregation list.
ScopedWithDeclaredList ==
    /\ ScopedToCollection
    /\ "aggregations" \in DOMAIN Catalog[req.collection_id[1]]
    /\ Catalog[req.collection_id[1]].aggregations # <<>>

DeclaredNames ==
    {Catalog[req.collection_id[1]].aggregations[i].name :
        i \in 1..Len(Catalog[req.collection_id[1]].aggregations)}

\* The first requested name outside the set `permitted`.
FirstRefused(permitted) ==
    RequestedNames[CHOOSE i \in 1..Len(RequestedNames) :
                      /\ RequestedNames[i] \notin permitted
                      /\ \A j \in 1..(i - 1) : RequestedNames[j] \in permitted]

\* C1: with collection_id naming a collection that declares a non-empty
\* aggregation list, a request that asks for a name outside that list never
\* reaches database.aggregate and never gets a response; once find_collection
\* has answered it has ended with an exception, and unless the request was
\* refused before its names were looked at that exception is HTTP 415 naming
\* the first undeclared name and the collection.
C1_UndeclaredNameIs415 ==
    (/\ Active
     /\ ScopedWithDeclaredList
     /\ \E i \in 1..Len(RequestedNames) : RequestedNames[i] \notin DeclaredNames)
    => /\ "aggregate" \notin BackendOps
       /\ ~results.bound
       /\ pc \in {"find_collection", "done"}
       /\ Ended => raised # None
       /\ (Ended /\ ~RefusedBeforeNames) =>
             raised = Some(HTTPException(415,
                 <<"Aggregation", FirstRefused(DeclaredNames),
                   "not supported by collection", req.collection_id>>))

\* The eight precision parameters with the range each one must lie in.
PrecisionRanges ==
    << [param |-> "grid_geohash_frequency_precision", lo |-> 1, hi |-> 12],
       [param |-> "grid_geohex_frequency_precision", lo |-> 0, hi |-> 15],
       [param |-> "grid_geotile_frequency_precision", lo |-> 0, hi |-> 29],
       [param |-> "centroid_geohash_grid_frequency_precision", lo |-> 1, hi |-> 12],
       [param |-> "centroid_geohex_grid_frequency_precision", lo |-> 0, hi |-> 15],
       [param |-> "centroid_geotile_grid_frequency_precision", lo |-> 0, hi |-> 29],
       [param |-> "geometry_geohash_grid_frequency_precision", lo |-> 1, hi |-> 12],
       [param |-> "geometry_geotile_grid_frequency_precision", lo |-> 0, hi |-> 29] >>

\* The precision parameters the request supplies outside their range.
OutOfRange ==
    {i \in 1..Len(PrecisionRanges) :
        /\ req[PrecisionRanges[i].param] # None
        /\ \/ req[PrecisionRanges[i].param][1] < PrecisionRanges[i].lo
           \/ req[PrecisionRanges[i].param][1] > PrecisionRanges[i].hi}

\* The names of the catalog-wide allow-list.
CatalogNames == Range(ALL_AGGREGATION_NAMES)

\* C2: in every case other than a scoped collection that declares a
\* non-empty aggregation list (no collection_id, with or without a
\* `collections` filter, or a scoped collection that declares no list or an
\* empty one) a request that got as far as its aggregation names is checked
\* against the catalog-wide list: it ends with 415 'not supported at catalog
\* level' for its first name outside that list, it is accepted when all
\* its names are in the list, and it never ends because `collection` was not
\* assigned or holds no list.
C2_CatalogListApplies ==
    (/\ Active
     /\ pc \in {"db_aggregate", "done"}
     /\ req.collection_id = None \/ ScopedToCollection
     /\ ~ScopedWithDeclaredList
     /\ ~RefusedBeforeNames)
    => /\ ~RaisedUnbound("collection")
       /\ raised # None => raised[1].exc # "AttributeError"
       /\ IF \E i \in 1..Len(RequestedNames) : RequestedNames[i] \notin CatalogNames
          THEN /\ Ended
               /\ raised = Some(HTTPException(415,
                     <<"Aggregation", FirstRefused(CatalogNames),
                       "not supported at catalog level">>))
               /\ "aggregate" \notin BackendOps
          ELSE /\ ~RaisedHTTP(415)
               /\ OutOfRange = {} => "aggregate" \in BackendOps

\* C2 happens: c2 (which declares no list) is scoped, a name of the
\* catalog-wide list is requested and database.aggregate has been called.
C2_Witness ==
    /\ Active
    /\ req.collection_id = Some("c2")
    /\ req.aggregations = Some(<<"grid_geohex_frequency">>)
    /\ "aggregate" \in BackendOps

\* C3: a request with both bbox and intersects ends with a client error
\* (an HTTP 4xx exception with a detail) and no backend call has been made.
C3_BboxAndIntersectsIsClientError ==
    (Ended /\ req.bbox # None /\ req.intersects # None)
    => /\ RaisedClientError
       /\ raised[1].detail # <<>>
       /\ calls = <<>>

\* C4: a request that supplies any of the eight precisions outside its range
\* (geohash 1..12, geohex 0..15, geotile 0..29) never reaches
\* database.aggregate and never gets a response, whatever names it asks for;
\* a request that gets as far as its precisions (names of the catalog-wide
\* list, no collection or one the backend holds without a declared list, not
\* refused earlier) ends with HTTP 400 'Invalid precision' giving the range
\* of the first offending parameter.
C4_OutOfRangePrecisionRefused ==
    (Active /\ OutOfRange # {})
    => /\ "aggregate" \notin BackendOps
       /\ ~results.bound
       /\ pc \in {"find_collection", "done"}
       /\ Ended => raised # None
       /\ (/\ Ended
           /\ req.collection_id = None \/ ScopedToCollection
           /\ ~ScopedWithDeclaredList
           /\ ~RefusedBeforeNames
           /\ Range(RequestedNames) \subseteq CatalogNames)
          => LET first == CHOOSE i \in OutOfRange : \A j \in OutOfRange : i <= j
             IN  raised = Some(HTTPException(400,
                     <<"Invalid precision. Must be a number between",
                       PrecisionRanges[first].lo, "and",
                       PrecisionRanges[first].hi, "inclusive">>))

\* C4 happens: a geotile precision above 29 is supplied by a request that
\* asks for an aggregation that does not use it, and the request has ended
\* with 400.
C4_Witness ==
    /\ Ended
    /\ req.aggregations = Some(<<"total_count">>)
    /\ req.geometry_geotile_grid_frequency_precision = Some(30)
    /\ RaisedHTTP(400)
    /\ "aggregate" \notin BackendOps

\* C5: each of the eight precisions handed to database.aggregate lies within
\* its range, is the requested value when the request supplied one and the
\* minimum of the range when it did not.
C5_PrecisionsPassedToBackend ==
    \A c \in 1..Len(calls) :
        calls[c].op = "aggregate" =>
            /\ Len(calls[c].precisions) = Len(PrecisionRanges)
            /\ \A i \in 1..Len(PrecisionRanges) :
                  LET passed == calls[c].precisions[i]
                      asked == req[PrecisionRanges[i].param]
                  IN  /\ PrecisionRanges[i].lo <= passed
                      /\ passed <= PrecisionRanges[i].hi
                      /\ passed = IF asked # None THEN asked[1]
                                  ELSE PrecisionRanges[i].lo

\* C5 happens: database.aggregate has been called for a request that supplies
\* the largest geohex precision, the smallest geohash precision and leaves
\* the other six out.
C5_Witness ==
    /\ Active
    /\ "aggregate" \in BackendOps
    /\ req.grid_geohex_frequency_precision = Some(15)
    /\ req.grid_geohash_frequency_precision = Some(1)
    /\ req.grid_geotile_frequency_precision = None

\* C6: when database.aggregate raises IndexError the call returns normally
\* with an AggregationCollection whose aggregations list is empty.
C6_IndexErrorGivesEmptyResponse ==
    (Ended /\ error = Bound("IndexError"))
    => /\ raised = None
       /\ results.bound
       /\ results.val.type = "AggregationCollection"
       /\ results.val.aggregations = <<>>

\* database.aggregate has returned a result and the caller has the response.
Shaped == Returned /\ db_response.bound /\ db_response.val # None

RawAggs == db_response.val[1].aggregations

ResponseAggs == results.val.aggregations

ScalarNames == {"total_count", "datetime_max", "datetime_min"}

\* C7: when database.aggregate returned a result, the response holds exactly
\* one Aggregation for each distinct requested name and none for a name that
\* was not requested; a request for total_count alone gets exactly one
\* Aggregation, named total_count and of data type integer.
C7_OneAggregationPerRequestedName ==
    Shaped =>
        /\ {ResponseAggs[i].name : i \in 1..Len(ResponseAggs)} = Range(RequestedNames)
        /\ \A i, j \in 1..Len(ResponseAggs) :
              ResponseAggs[i].name = ResponseAggs[j].name => i = j
        /\ Range(RequestedNames) = {"total_count"} =>
              /\ Len(ResponseAggs) = 1
              /\ ResponseAggs[1].name = "total_count"
              /\ ResponseAggs[1].data_type = "integer"

\* C7 happens: the same distribution is requested twice next to a scalar and
\* the response holds two Aggregations.
C7_Witness ==
    /\ Shaped
    /\ req.aggregations =
          Some(<<"grid_geohex_frequency", "datetime_max", "grid_geohex_frequency">>)
    /\ Len(ResponseAggs) = 2

\* The field of the raw aggregation entry `name`, None when the entry or the
\* field is missing.
RawField(name, field) ==
    IF name \in DOMAIN RawAggs /\ field \in DOMAIN RawAggs[name]
    THEN Some(RawAggs[name][field]) ELSE None

\* C8: a requested scalar is in the response, and a scalar of the response
\* is a record of name, data_type and value only (no buckets): total_count
\* is an integer valued total_count.value, datetime_max and datetime_min are
\* datetimes valued value_as_string of their raw entry, and the value is null
\* when the raw aggregations have no such entry or field.
C8_ScalarAggregations ==
    Shaped =>
        /\ \A name \in ScalarNames \cap Range(RequestedNames) :
              \E i \in 1..Len(ResponseAggs) : ResponseAggs[i].name = name
        /\ \A i \in 1..Len(ResponseAggs) :
              /\ ResponseAggs[i].name = "total_count" =>
                    ResponseAggs[i] =
                        [name |-> "total_count", data_type |-> "integer",
                         value |-> RawField("total_count", "value")]
              /\ ResponseAggs[i].name \in {"datetime_max", "datetime_min"} =>
                    ResponseAggs[i] =
                        [name |-> ResponseAggs[i].name, data_type |-> "datetime",
                         value |-> RawField(ResponseAggs[i].name, "value_as_string")]

\* C8 happens: the response holds total_count with the raw count and
\* datetime_max with the formatted instant of its raw entry.
C8_Witness ==
    /\ Shaped
    /\ \E i, j \in 1..Len(ResponseAggs) :
          /\ ResponseAggs[i].name = "total_count"
          /\ ResponseAggs[i].value = Some(3)
          /\ ResponseAggs[j].name = "datetime_max"
          /\ ResponseAggs[j].value = Some("2020-12-31T00:00:00.000Z")

\* The element type each distribution declares for its buckets.
ElementType(name) ==
    IF name = "datetime_frequency" THEN "datetime"
    ELSE IF name = "cloud_cover_frequency" THEN "numeric"
    ELSE "string"

\* C9: every other Aggregation of the response is a frequency_distribution
\* with one Bucket per raw bucket, in the raw order: key is key_as_string
\* when the raw bucket has one and key otherwise, frequency is doc_count,
\* data_type is the element type of the aggregation; overflow is
\* sum_other_doc_count, 0 when absent.  A name without raw entry gets no
\* buckets and overflow 0.
C9_FrequencyDistributions ==
    Shaped =>
        \A i \in 1..Len(ResponseAggs) :
            ResponseAggs[i].name \notin ScalarNames =>
                LET a == ResponseAggs[i]
                    entry == IF a.name \in DOMAIN RawAggs
                             THEN RawAggs[a.name] ELSE [buckets |-> <<>>]
                IN  /\ a.data_type = "frequency_distribution"
                    /\ Len(a.buckets) = Len(entry.buckets)
                    /\ \A k \in 1..Len(a.buckets) :
                          /\ a.buckets[k].key =
                                IF "key_as_string" \in DOMAIN entry.buckets[k]
                                THEN Some(entry.buckets[k].key_as_string)
                                ELSE Some(entry.buckets[k].key)
                          /\ a.buckets[k].frequency = Some(entry.buckets[k].doc_count)
                          /\ a.buckets[k].data_type = ElementType(a.name)
                    /\ a.overflow = IF "sum_other_doc_count" \in DOMAIN entry
                                    THEN entry.sum_other_doc_count ELSE 0
                    /\ a.name \notin DOMAIN RawAggs =>
                          a.buckets = <<>> /\ a.overflow = 0

\* C9 happens: the response holds datetime_frequency with the bucket keyed by
\* its key_as_string and grid_geohex_frequency with two buckets keyed by key
\* and an overflow of 4.
C9_Witness ==
    /\ Shaped
    /\ \E i, j \in 1..Len(ResponseAggs) :
          /\ ResponseAggs[i].name = "datetime_frequency"
          /\ Len(ResponseAggs[i].buckets) = 1
          /\ ResponseAggs[i].buckets[1].key = Some("2020-01-01T00:00:00.000Z")
          /\ ResponseAggs[j].name = "grid_geohex_frequency"
          /\ Len(ResponseAggs[j].buckets) = 2
          /\ ResponseAggs[j].buckets[1].key = Some("8a2a1072b59ffff")
          /\ ResponseAggs[j].overflow = 4

\* The place of a name in the response: the three scalars, then the
\* distributions.
Place(name) ==
    IF name = "total_count" THEN 1
    ELSE IF name = "datetime_max" THEN 2
    ELSE IF name = "datetime_min" THEN 3
    ELSE 4

\* C10: whatever the order of the requested names, the response lists
\* total_count, then datetime_max, then datetime_min, then the distributions;
\* when total_count is requested, aggregations[0] is the total_count
\* Aggregation.
C10_ResponseOrder ==
    Shaped =>
        /\ \A i, j \in 1..Len(ResponseAggs) :
              i < j => Place(ResponseAggs[i].name) <= Place(ResponseAggs[j].name)
        /\ "total_count" \in Range(RequestedNames) =>
              /\ Len(ResponseAggs) >= 1
              /\ ResponseAggs[1].name = "total_count"
              /\ ResponseAggs[1].value = RawField("total_count", "value")

\* C10 happens: total_count is requested last, after a distribution and
\* datetime_min, and is first in the response.
C10_Witness ==
    /\ Shaped
    /\ req.aggregations =
          Some(<<"grid_geohex_frequency", "datetime_min", "total_count">>)
    /\ Len(ResponseAggs) = 3
    /\ ResponseAggs[1].name = "total_count"
    /\ ResponseAggs[3].name = "grid_geohex_frequency"

\* The operation `name` has ended and its outcome is in the frame.
EndedOp(name) == pc = "done" /\ op = name

\* C11: get_aggregations without collection_id returns normally and its
\* response lists exactly 12 aggregation descriptors.
C11_CatalogAggregationsAreTwelve ==
    (EndedOp("get_aggregations") /\ req.collection_id = None)
    => /\ raised = None
       /\ results.val.type = "AggregationCollection"
       /\ Len(results.val.aggregations) = 12

\* C12: for every valid datetime input (None, a datetime, a pair of optional
\* datetimes, a string instant, a string interval) _return_date of either
\* client returns a mapping whose keys are exactly gte and lte.
C12_ReturnDateKeys ==
    EndedOp("_return_date")
    => /\ raised = None
       /\ results.bound
       /\ DOMAIN results.val = {"gte", "lte"}

\* C12 happens: _return_date of CoreClient has returned for a string
\* interval with an open start, and both keys are there, gte being null.
C12_Witness ==
    /\ EndedOp("_return_date")
    /\ req.client = "CoreClient"
    /\ req.interval = Some([kind |-> "str",
                            s |-> <<"..", "/", "2021-06-30T12:00:00">>])
    /\ DOMAIN results.val = {"gte", "lte"}
    /\ results.val.gte = None
    /\ results.val.lte = Some(<<"2021-06-30T12:00:00">>)

\* The text of a string interval before and after its separator.
StartPart(s) ==
    SubSeq(s, 1, (CHOOSE k \in 1..Len(s) : s[k] = "/") - 1)

EndPart(s) ==
    SubSeq(s, (CHOOSE k \in 1..Len(s) : s[k] = "/") + 1, Len(s))

OpenEnded(part) == part = <<"..">> \/ part = <<>>

\* C13: _return_date sets a bound to null exactly when that end is open: for
\* a pair, gte (lte) is null iff start (end) is None; for a string interval,
\* gte (lte) is null iff the start (end) part is `..` or empty, and a given
\* part is carried as it is; a single instant gives gte = lte, not null.
C13_NullExactlyWhenOpen ==
    (EndedOp("_return_date") /\ req.interval # None)
    => LET v == req.interval[1]
           r == results.val
       IN  /\ v.kind = "tuple" =>
                 /\ r.gte = None <=> v.start = None
                 /\ r.lte = None <=> v.end = None
           /\ (v.kind = "str" /\ \E k \in 1..Len(v.s) : v.s[k] = "/") =>
                 /\ r.gte = IF OpenEnded(StartPart(v.s)) THEN None
                            ELSE Some(StartPart(v.s))
                 /\ r.lte = IF OpenEnded(EndPart(v.s)) THEN None
                            ELSE Some(EndPart(v.s))
           /\ (v.kind = "str" /\ \A k \in 1..Len(v.s) : v.s[k] # "/") =>
                 r.gte = Some(v.s) /\ r.lte = Some(v.s)
           /\ v.kind = "datetime" => r.gte # None /\ r.lte = r.gte

\* The calls of apply_bbox_filter the running operation has made.
BboxCalls == SelectSeq(calls, LAMBDA c : c.op = "apply_bbox_filter")

\* The operation has compiled its query and awaits the backend's answer.
QueryCompiled ==
    \/ op \in {"item_collection", "post_search"} /\ pc = "execute_search"
    \/ op = "aggregate" /\ pc = "db_aggregate"

Derived2D(b) == IF Len(b) = 6 THEN <<b[1], b[2], b[4], b[5]>> ELSE b

\* C14: in item_collection, post_search and aggregate a 6-value bbox b makes
\* the pipeline call apply_bbox_filter once, with [b[0], b[1], b[3], b[4]],
\* and a 4-value bbox is passed as it is; the compiled query of post_search
\* is the one of the same request with the derived 4-value bbox.
C14_SixValueBboxIsDerived2D ==
    (QueryCompiled /\ req.bbox # None)
    => /\ Len(BboxCalls) = 1
       /\ BboxCalls[1].arg = Derived2D(req.bbox[1])
       /\ Len(BboxCalls[1].arg) = 4
       /\ op = "post_search" =>
             calls = PostSearch(Frame([req EXCEPT
                         !.bbox = Some(Derived2D(req.bbox[1]))])).calls

\* C14 happens: post_search got a 6-value bbox and has asked the backend for
\* the box without the altitude pair.
C14_Witness ==
    /\ op = "post_search"
    /\ pc = "execute_search"
    /\ req.bbox = Some(<<-10, -20, 0, 10, 20, 100>>)
    /\ BboxCalls = <<[op |-> "apply_bbox_filter", arg |-> <<-10, -20, 10, 20>>]>>

\* The numbers of a bbox string, when every piece of it is a number.
BboxNumbers(x) ==
    LET l == split(x, ",") IN [i \in 1..Len(l) |-> float(l[i]).value]

AllNumbers(x) ==
    LET l == split(x, ",") IN \A i \in 1..Len(l) : float(l[i]).raised = None

\* A bbox of 4 or 6 values whose south latitude does not exceed its north.
WellFormedBbox(b) ==
    \/ Len(b) = 4 /\ b[2] <= b[4]
    \/ Len(b) = 6 /\ b[2] <= b[5]

\* C15: on the aggregation path a bbox of neither 4 nor 6 values, or with
\* south above north, ends in a client error and no backend call, so
\* apply_bbox_filter is never called with such a bbox; a bbox of 4 or 6
\* values with south <= north is accepted and goes to apply_bbox_filter.
C15_MalformedBboxIsClientError ==
    /\ (op = "AggregationExtensionGetRequest" /\ pc = "done"
        /\ AllNumbers(req.bbox[1]))
       => /\ ~WellFormedBbox(BboxNumbers(req.bbox[1]))
          /\ RaisedClientError
    /\ (op = "aggregate" /\ pc # "idle" /\ req.bbox # None)
       => IF WellFormedBbox(req.bbox[1])
          THEN pc = "db_aggregate" => Len(BboxCalls) = 1
          ELSE /\ BboxCalls = <<>>
               /\ pc = "done" => RaisedClientError

\* The pages the paging client has received so far.
Pages == IF session = None THEN <<>> ELSE session[1].pages

PageOf(token) == Pages[CHOOSE i \in 1..Len(Pages) : Pages[i].token = token]

\* The records the client has seen by following the next links from the
\* first page, through at most n pages.
RECURSIVE Followed(_, _)
Followed(token, n) ==
    IF n = 0 \/ \A i \in 1..Len(Pages) : Pages[i].token # token THEN <<>>
    ELSE PageOf(token).items \o
         (IF PageOf(token).next = None THEN <<>>
          ELSE Followed(PageOf(token).next, n - 1))

\* The client has followed the next links to a page that has none.
RECURSIVE ReachedLastPage(_, _)
ReachedLastPage(token, n) ==
    /\ n > 0
    /\ \E i \in 1..Len(Pages) : Pages[i].token = token
    /\ \/ PageOf(token).next = None
       \/ ReachedLastPage(PageOf(token).next, n - 1)

\* C16: post_search and item_collection hand the request's token to
\* execute_search and the backend's next token to the next link as they are;
\* a client that passes the next tokens back sees the matching records in
\* order without duplicate or gap, all of them once it reaches the last
\* page, and a token that is used again gives the same page again.
C16_PagingReturnsEveryRecordOnce ==
    /\ (op \in {"post_search", "item_collection"} /\ pc = "execute_search")
       => calls[Len(calls)].arg.token = req.token
    /\ (op \in {"post_search", "item_collection"} /\ pc = "done"
        /\ raised = None)
       => NextOf(results.val.links) = db_response.val.next_token
    /\ \A i \in 1..Len(Pages) : \A j \in 1..Len(Pages) :
          Pages[i].token = Pages[j].token => Pages[i] = Pages[j]
    /\ LET seen == Followed(None, Len(Pages))
       IN  /\ Len(seen) <= Len(Items)
           /\ seen = SubSeq(Items, 1, Len(seen))
           /\ ReachedLastPage(None, Len(Pages)) => seen = Items

\* C16 happens: a client of post_search has followed the next links page by
\* page to the last one, has asked for the second page twice, and has seen
\* every record once.
C16_Witness ==
    /\ op = "post_search"
    /\ pc = "done"
    /\ Len(Pages) = 4
    /\ Pages[1].token = None
    /\ Pages[2].token = Pages[1].next
    /\ Pages[3].token = Pages[2].token
    /\ Pages[4].token = Pages[3].next
    /\ Pages[4].next = None
    /\ Len(Pages[1].items) = 1
    /\ ReachedLastPage(None, 4)
    /\ Followed(None, 4) = Items

HasNextLink == \E i \in 1..Len(results.val.links) : results.val.links[i].rel = "next"

\* C17: the links of all_collections, item_collection and post_search hold a
\* next link exactly when the backend returned a non-empty next token for
\* the page, and the link carries that token; the response to a last page
\* has no next link.
C17_NextLinkIffNextToken ==
    (op \in {"all_collections", "item_collection", "post_search"}
     /\ pc = "done" /\ raised = None)
    => LET next_token == db_response.val.next_token
       IN  /\ HasNextLink <=> (next_token # None /\ next_token[1] # "")
           /\ HasNextLink => NextOf(results.val.links) = next_token
           /\ Len(SelectSeq(results.val.links,
                            LAMBDA l : l.rel = "next")) <= 1

\* C17 happens: all_collections got a page and a token from the backend and
\* its response carries the next link with that token.
C17_Witness ==
    /\ op = "all_collections"
    /\ pc = "done"
    /\ raised = None
    /\ db_response.val.next_token = Some("c2")
    /\ HasNextLink
    /\ NextOf(results.val.links) = Some("c2")

\* The fields of a sortby list, each once, in the order of their first keys.
RECURSIVE DistinctFields(_)
DistinctFields(sortby) ==
    IF sortby = <<>> THEN <<>>
    ELSE LET n == Len(sortby)
             before == DistinctFields(SubSeq(sortby, 1, n - 1))
         IN  IF \E i \in 1..n - 1 : sortby[i].field = sortby[n].field
             THEN before ELSE Append(before, sortby[n].field)

\* C18: for a non-empty sortby populate_sort_shared returns a mapping with
\* one entry per sort field, in input order, each mapped to the direction of
\* the key that names it (the last such key when a field is named twice) and
\* with no other field; for an empty or missing sortby it returns None.
C18_SortMappingFollowsInput ==
    EndedOp("populate_sort_shared")
    => IF req.sortby = None \/ req.sortby[1] = <<>>
       THEN results.val = None
       ELSE LET sortby == req.sortby[1]
                fields == DistinctFields(sortby)
                sort == results.val[1]
            IN  /\ Len(sort) = Len(fields)
                /\ \A i \in 1..Len(sort) :
                      /\ sort[i].key = fields[i]
                      /\ DOMAIN sort[i].value = {"order"}
                      /\ \E k \in 1..Len(sortby) :
                            /\ sortby[k].field = fields[i]
                            /\ sort[i].value.order = sortby[k].direction
                            /\ \A later \in k + 1..Len(sortby) :
                                  sortby[later].field # fields[i]
                /\ Len(fields) = Len(sortby) =>
                      sort = [i \in 1..Len(sortby) |->
                                 [key |-> sortby[i].field,
                                  value |-> [order |-> sortby[i].direction]]]

\* C18 happens: populate_sort_shared has returned for two keys of different
\* fields, the first descending, and the mapping lists them in that order.
C18_Witness ==
    /\ EndedOp("populate_sort_shared")
    /\ req.sortby = Some(<<[field |-> "properties.datetime", direction |-> "desc"],
                           [field |-> "id", direction |-> "asc"]>>)
    /\ results.val = Some(<<[key |-> "properties.datetime",
                             value |-> [order |-> "desc"]],
                            [key |-> "id", value |-> [order |-> "asc"]]>>)

\* C19: get_search turns each sortby key into one sort entry, in input
\* order: `-f` becomes field f descending, a bare key f becomes field f
\* ascending; the field is the key without its sign.
C19_SortKeysBecomeEntries ==
    (op = "get_search" /\ pc = "execute_search" /\ req.kwargs.sortby # None)
    => LET keys == req.kwargs.sortby[1]
           sort_param == req.sortby[1]
       IN  /\ Len(sort_param) = Len(keys)
           /\ \A i \in 1..Len(keys) :
                 sort_param[i] =
                    IF Head(keys[i]) = "-"
                    THEN [field |-> Tail(keys[i]), direction |-> "desc"]
                    ELSE IF Head(keys[i]) = "+"
                    THEN [field |-> Tail(keys[i]), direction |-> "asc"]
                    ELSE [field |-> keys[i], direction |-> "asc"]

\* One accumulator entry per operator of every field of a structured query.
RECURSIVE QueryFilters(_)
QueryFilters(query) ==
    IF query = <<>> THEN <<>>
    ELSE [i \in 1..Len(query[1].value) |->
             [filter |-> "apply_stacql_filter",
              arg |-> [op |-> query[1].value[i].key,
                       field |-> <<"properties__", query[1].key>>,
                       value |-> query[1].value[i].value]]]
         \o QueryFilters(Tail(query))

OneFilter(value, name, arg) ==
    IF value = None THEN <<>> ELSE <<[filter |-> name, arg |-> arg]>>

\* The filters a request supplies, in the order post_search looks at them.
SuppliedFilters(r) ==
    OneFilter(r.ids, "apply_ids_filter", r.ids[1])
    \o OneFilter(r.collections, "apply_collections_filter", r.collections[1])
    \o OneFilter(r.datetime, "apply_datetime_filter",
                 [gte |-> Some(<<"2020-01-01T00:00:00Z">>), lte |-> None])
    \o OneFilter(r.bbox, "apply_bbox_filter", Derived2D(r.bbox[1]))
    \o OneFilter(r.intersects, "apply_intersects_filter", r.intersects[1])
    \o (IF r.query = None THEN <<>> ELSE QueryFilters(r.query[1]))
    \o OneFilter(r.filter, "apply_cql2_filter", r.filter[1])

\* C20: the accumulator post_search hands to execute_search holds exactly
\* the filters the request supplies (ids, collections, datetime, bbox,
\* intersects, every operator of every query field, the CQL2 filter), each
\* once and each composed onto the ones before it, and nothing for a field
\* the request leaves absent.
C20_AccumulatorIsSuppliedFilters ==
    (op = "post_search" /\ pc = "execute_search")
    => /\ calls[Len(calls)].op = "execute_search"
       /\ calls[Len(calls)].arg.search = SuppliedFilters(req)
       /\ search.val = SuppliedFilters(req)

\* C20 happens: post_search got ids, collections, a datetime, a bbox, a
\* query of two fields and three operators and a CQL2 filter, and asks
\* execute_search with the eight filters composed.
C20_Witness ==
    /\ op = "post_search"
    /\ pc = "execute_search"
    /\ req.ids # None /\ req.collections # None /\ req.datetime # None
    /\ req.bbox # None /\ req.intersects = None /\ req.query # None
    /\ req.filter # None
    /\ Len(calls[Len(calls)].arg.search) = 8
    /\ calls[Len(calls)].arg.search[5].arg.op = "gt"
    /\ calls[Len(calls)].arg.search[8].filter = "apply_cql2_filter"

\* The filter_lang get_search works with: its argument, else the one of the
\* query string.
DeclaredLang(kwargs) ==
    IF kwargs.filter_lang = None THEN kwargs.query_params.filter_lang
    ELSE kwargs.filter_lang

\* The filter string does not decode (declared cql2-json) or does not parse
\* as CQL2-text (declared anything else or nothing).
Untranslatable(kwargs) ==
    /\ kwargs.filter # None
    /\ IF DeclaredLang(kwargs) = Some("cql2-json")
       THEN kwargs.filter[1].form # "json"
       ELSE kwargs.filter[1].form # "text"

\* The last backend call was apply_cql2_filter, on a filter it rejects.
Cql2Rejected ==
    /\ calls # <<>>
    /\ calls[Len(calls)].op = "apply_cql2_filter"
    /\ IF op = "aggregate" THEN ~calls[Len(calls)].arg.accepted
       ELSE /\ calls[Len(calls)].arg # None
            /\ ~calls[Len(calls)].arg[1].accepted

\* C21: a CQL2 translation failure ends in HTTP 400 with the diagnostic,
\* never in another exception: for a filter string get_search cannot decode
\* or parse, and for a filter apply_cql2_filter rejects in post_search, in
\* the post_search get_search runs, and in aggregate.
C21_Cql2FailureIsClientError ==
    /\ (op = "get_search" /\ pc = "done" /\ "kwargs" \in DOMAIN req
        /\ Untranslatable(req.kwargs))
       => RaisedHTTP(400)
    /\ (op \in {"post_search", "get_search", "aggregate"} /\ pc # "idle"
        /\ pc # "paging" /\ Cql2Rejected)
       => /\ pc = "done"
          /\ RaisedHTTP(400)
          /\ op # "aggregate" =>
                raised[1].detail = <<"Error with cql2_json filter: ",
                                     <<"cannot translate">>>>

\* The calls of apply_cql2_filter the running operation has made.
Cql2Calls == SelectSeq(calls, LAMBDA c : c.op = "apply_cql2_filter")

\* C22: when get_search is given a filter, the request it hands to
\* post_search has filter-lang cql2-json and a filter in CQL2-JSON form,
\* decoded from the string when that was declared cql2-json and lowered from
\* CQL2-text otherwise; apply_cql2_filter never gets CQL2-text.
C22_FilterHandedOnIsCql2Json ==
    (op = "get_search" /\ pc \in {"execute_search", "done"}
     /\ "filter" \in DOMAIN req /\ req.kwargs.filter # None)
    => /\ req.filter_lang = Some("cql2-json")
       /\ req.filter # None
       /\ req.filter[1].form = "cql2-json"
       /\ req.filter[1].accepted = req.kwargs.filter[1].accepted
       /\ req.kwargs.filter[1].form =
             IF DeclaredLang(req.kwargs) = Some("cql2-json") THEN "json"
             ELSE "text"
       /\ Len(Cql2Calls) = 1
       /\ Cql2Calls[1].arg = req.filter

\* C22 happens: get_search got CQL2-text without a filter_lang, and
\* post_search has given its CQL2-JSON form to apply_cql2_filter and awaits
\* execute_search.
C22_Witness ==
    /\ op = "get_search"
    /\ pc = "execute_search"
    /\ req.kwargs.filter = Some([form |-> "text", accepted |-> TRUE])
    /\ DeclaredLang(req.kwargs) = None
    /\ req.filter_lang = Some("cql2-json")
    /\ Cql2Calls[1].arg = Some([form |-> "cql2-json", accepted |-> TRUE])

\* C23: get_search takes a datetime that is one instant or a (start, end)
\* pair with either end open: it builds the datetime string of the search
\* request without failing, writes an open end as `..`, and _return_date of
\* that string is _return_date of the value it was built from.
C23_DatetimeIsFormatted ==
    (op = "get_search" /\ pc \in {"execute_search", "done"}
     /\ req.kwargs.datetime # None)
    => /\ ~(raised # None /\ raised[1].exc = "TypeError")
       /\ "datetime" \in DOMAIN req =>
             LET given == req.kwargs.datetime[1]
                 text == req.datetime[1]
             IN  /\ given.kind = "tuple" =>
                       /\ given.start = None <=> StartPart(text) = <<"..">>
                       /\ given.end = None <=> EndPart(text) = <<"..">>
                 /\ CoreClient_return_date(Some([kind |-> "str", s |-> text]))
                       = CoreClient_return_date(req.kwargs.datetime)

\* post_search, called directly or by get_search, has returned a response
\* and the fields extension is enabled.
ProjectedResponse ==
    /\ op \in {"post_search", "get_search"}
    /\ pc = "done"
    /\ raised = None
    /\ req.fields # None

C30_QueriedFieldsAreIncluded ==
    (ProjectedResponse /\ req.query # None)
    => \A i \in 1..Len(req.query[1]) :
          (IF req.query[1][i].key \in indexed_fields
           THEN <<req.query[1][i].key>>
           ELSE <<"properties.", req.query[1][i].key>>)
             \in req.fields[1].include


\* Successful calls of a transaction operation.
Succeeded(name) == EndedOp(name) /\ raised = None

\* The backend calls of the frame that write to the backend.
Mutations ==
    {i \in 1..Len(calls) :
        calls[i].op \in {"create_item", "delete_item", "bulk_async", "bulk_sync"}}

\* C25: bulk_item_insert surfaces the backend's batch result: when the bulk
\* call reported documents it could not index, the message returned does not
\* say that all items of the batch were successfully added.
C25_BulkReportIsSurfaced ==
    (Succeeded("bulk_item_insert") /\ db_response.val.errors > 0)
    => results.val # SuccessfullyAdded(Len(req.items))

\* C26: create_item of a single item, update_item and delete_item each
\* mutate the backend through exactly one backend call: never more than one
\* while they run, and one when they have succeeded.
C26_OneMutationPerOperation ==
    (op \in {"create_item", "update_item", "delete_item"}
        /\ (op = "create_item" => req.item.type = "Feature"))
    => /\ Cardinality(Mutations) <= 1
       /\ (pc = "done" /\ raised = None) => Cardinality(Mutations) = 1

\* The rel values of the links of the response.
ResponseRels == {results.val.links[i].rel : i \in 1..Len(results.val.links)}

\* C29: aggregate on an existing collection whose backend aggregation
\* returned ends normally with an AggregationCollection whose links hold a
\* self, a root and a collection link; no local is read before it is
\* assigned.
C29_CollectionAggregateReturnsLinks ==
    (EndedOp("aggregate")
        /\ TruthyStr(req.collection_id)
        /\ req.collection_id[1] \in DOMAIN Catalog
        /\ "aggregate" \in {calls[i].op : i \in 1..Len(calls)}
        /\ db_response.bound)
    => /\ raised = None
       /\ results.val.type = "AggregationCollection"
       /\ {"self", "root", "collection"} \subseteq ResponseRels

\* What database.aggregate answered the first request, from its frame.
MainDbAnswer ==
    IF error.bound THEN Failure(error.val)
    ELSE IF db_response.bound THEN Answer(db_response.val)
    ELSE Answer(None)

\* The answers the first request received at its awaits.
MainAnswers ==
    IF op = "aggregate" /\ TruthyStr(req.collection_id)
    THEN <<Answer(None), MainDbAnswer>>
    ELSE IF op = "aggregate" THEN <<MainDbAnswer>>
    ELSE <<Answer(None)>>

\* Two read requests side by side: the second has ended.
SecondEnded == other # None /\ other[1].pc = "done"

ExistedBefore ==
    /\ op = "update_item"
    /\ \/ index.val[req.item_id] # None
       \/ "prep_create_item" \in {calls[i].op : i \in 1..Len(calls)}

\* C28: an item that existed before update_item stays in the backend, in its
\* old or its new version, through the call and after it: a get_item for it
\* that runs beside the update finds it.
C28_UpdatedItemStaysVisible ==
    ExistedBefore
    => /\ index.val[req.item_id] # None
       /\ (SecondEnded /\ other[1].f.req = [item_id |-> req.item_id,
                                            collection_id |-> req.collection_id])
          => other[1].f.raised = None
=============================================================================
